---- MODULE Spec2Model ----
(***************************************************************************)
(* Model of the hybrid retrieval engine of ResumeAgents                    *)
(* (src/resumeagents/utils/unified_vectordb.py, class UnifiedVectorDB).    *)
(*                                                                         *)
(* Representation                                                          *)
(*  - a string is the sequence of its space-separated pieces ("words");    *)
(*    " ".join(parts) is concatenation of such sequences;                  *)
(*  - a category payload (a dict, or the interests list) is the sequence   *)
(*    of the words of its one list-valued field; every other field is      *)
(*    absent, so the .get(..., '') defaults apply; the empty sequence is   *)
(*    the empty dict / empty list;                                         *)
(*  - a vector is the angle (degrees) of a unit vector of the plane, so    *)
(*    the inner product of two normalised vectors is the cosine of the     *)
(*    difference of their angles;                                          *)
(*  - scores are fixed point, in units of 1e-6 (One == 1.0);               *)
(*  - Korean strings of the source are written in Latin transliteration   *)
(*    (the label of the company field is "hoesa:");                        *)
(*  - self.query_cache memoises the deterministic encoder per query: it    *)
(*    changes no result and is left out of the state;                      *)
(*  - None is -1 where the code stores an optional integer, and the empty  *)
(*    string / empty set where the code tests an optional argument for     *)
(*    truthiness.                                                          *)
(***************************************************************************)
EXTENDS Integers, Sequences, FiniteSets, TLC

VARIABLES
    index,            \* self.index: the vectors of the FAISS index, by position
    data_entries,     \* self.data_entries
    metadata,         \* self.metadata
    keyword_index,    \* self.keyword_index: token -> list of doc ids
    doc_frequencies,  \* self.doc_frequencies
    doc_lengths,      \* self.doc_lengths
    avg_doc_length,   \* self.avg_doc_length, in hundredths
    disk,             \* the files under db_path
    now,              \* the clock read by datetime.now()
    last,             \* the last public operation, its arguments and its outcome
    node,             \* the node of the workflow graph that runs next
    analysis_results, \* AgentState.analysis_results, as far as the graph reads it
    config,           \* ResumeAgentsGraph.config
    writer            \* the add_profile_to_vectordb call in flight, and how far it is

vars == <<index, data_entries, metadata, keyword_index, doc_frequencies,
          doc_lengths, avg_doc_length, disk, now, last, node, analysis_results,
          config, writer>>

\* the retrieval engine, its files, its clock and its call in flight
engine == <<index, data_entries, metadata, keyword_index, doc_frequencies,
            doc_lengths, avg_doc_length, disk, now, writer>>

\* no add_profile_to_vectordb call is in flight
NoWriter == [pc |-> "idle", profile_name |-> "", profile |-> 0, coarse |-> FALSE, k |-> 0]

\* the workflow graph (src/resumeagents/graph/resume_graph.py)
workflow == <<node, analysis_results, config>>

\* no workflow runs
NoWorkflow == node = "" /\ analysis_results = <<>> /\ config = <<>>

(***************************************************************************)
(* Bounds of the model                                                     *)
(***************************************************************************)
MaxClock == 3

(***************************************************************************)
(* Generic sequence helpers                                                *)
(***************************************************************************)
RECURSIVE Flatten(_)
Flatten(ss) == IF ss = <<>> THEN <<>> ELSE Head(ss) \o Flatten(Tail(ss))

Range(s) == {s[i] : i \in DOMAIN s}

Take(s, n) == SubSeq(s, 1, IF n < Len(s) THEN n ELSE Len(s))

Min(a, b) == IF a < b THEN a ELSE b

RECURSIVE SumSeq(_)
SumSeq(s) == IF s = <<>> THEN 0 ELSE Head(s) + SumSeq(Tail(s))

\* list.sort(key=score, reverse=True): stable, largest score first
RECURSIVE InsertByScore(_, _)
InsertByScore(sorted, r) ==
    IF sorted = <<>> THEN <<r>>
    ELSE IF Head(sorted).score >= r.score
         THEN <<Head(sorted)>> \o InsertByScore(Tail(sorted), r)
         ELSE <<r>> \o sorted

\* mutant: the list is left in the order it was built
SortSkipped(s) == s

RECURSIVE SortByScoreDesc(_)
SortByScoreDesc(s) ==
    IF s = <<>> THEN <<>>
    ELSE InsertByScore(SortByScoreDesc(SubSeq(s, 1, Len(s) - 1)), s[Len(s)])

(***************************************************************************)
(* Text: lower-casing, tokenizer                                           *)
(***************************************************************************)
\* str.lower() of one word
Lower(w) ==
    CASE w = "Python" -> "python"
      [] w = "Java"   -> "java"
      [] w = "API"    -> "api"
      [] w = "SQL"    -> "sql"
      [] OTHER        -> w

\* re.sub(<not a word character, space or Hangul>, ' ', word.lower()).split():
\* the pieces of one word
WordPieces(w) ==
    LET l == Lower(w) IN
    CASE l = "~"                   -> <<>>
      [] l = "scikit-learn"        -> <<"scikit", "learn">>
      [] l = "ireum:"              -> <<"ireum">>
      [] l = "imeil:"              -> <<"imeil">>
      [] l = "jeonhwa:"            -> <<"jeonhwa">>
      [] l = "geojuji:"            -> <<"geojuji">>
      [] l = "hakgyo:"             -> <<"hakgyo">>
      [] l = "jeongong:"           -> <<"jeongong">>
      [] l = "hagwi:"              -> <<"hagwi">>
      [] l = "joreop:"             -> <<"joreop">>
      [] l = "hakjeom:"            -> <<"hakjeom">>
      [] l = "hoesa:"              -> <<"hoesa">>
      [] l = "jikchaek:"           -> <<"jikchaek">>
      [] l = "buseo:"              -> <<"buseo">>
      [] l = "gigan:"              -> <<"gigan">>
      [] l = "timgyumo:"           -> <<"timgyumo">>
      [] l = "peurojekteumyeong:"  -> <<"peurojekteumyeong">>
      [] l = "yuhyeong:"           -> <<"yuhyeong">>
      [] l = "seolmyeong:"         -> <<"seolmyeong">>
      [] l = "yeokhal:"            -> <<"yeokhal">>
      [] l = "seonggwa:"           -> <<"seonggwa">>
      [] l = "jagyeokjeung:"       -> <<"jagyeokjeung">>
      [] l = "balgeup:"            -> <<"balgeup">>
      [] l = "chwideugil:"         -> <<"chwideugil">>
      [] l = "jeomsu:"             -> <<"jeomsu">>
      [] l = "susangmyeong:"       -> <<"susangmyeong">>
      [] l = "suyeogigwan:"        -> <<"suyeogigwan">>
      [] l = "susangil:"           -> <<"susangil">>
      [] l = "naeyong:"            -> <<"naeyong">>
      [] l = "dangimokpyo:"        -> <<"dangimokpyo">>
      [] l = "janggimokpyo:"       -> <<"janggimokpyo">>
      [] OTHER                     -> <<l>>

\* len(token) <= 1, for the pieces the model's words produce (the one-syllable
\* Korean stop words, written k_..., are of length 1 too)
ShortTokens == {"a", "r"}

stop_words ==
    {"k_i", "k_geu", "k_jeo", "k_geot", "k_su", "k_it", "k_ha", "k_doe", "k_doel",
     "k_han", "k_il", "k_ttae", "k_jung", "k_mit", "k_deung",
     "the", "a", "an", "and", "or", "but", "in", "on", "at", "to", "for", "of", "with", "by"}

KeepToken(t) == t \notin ShortTokens /\ t \notin stop_words

\* _tokenize
Tokenize(text) ==
    SelectSeq(Flatten([i \in DOMAIN text |-> WordPieces(text[i])]), KeepToken)

\* Counter(tokens)
Counter(tokens) ==
    [t \in Range(tokens) |-> Cardinality({i \in DOMAIN tokens : tokens[i] = t})]

\* Counter.get(token, 0)
CountOf(freq, t) == IF t \in DOMAIN freq THEN freq[t] ELSE 0

(***************************************************************************)
(* The external encoder (SentenceTransformer.encode + faiss.normalize_L2): *)
(* a deterministic map from a text to a unit vector.  The model's encoder  *)
(* places a text by the topics among its tokens.                           *)
(***************************************************************************)
Encode(text) ==
    LET toks == Range(Tokenize(text)) IN
    CASE "python" \in toks /\ "java" \in toks -> 45
      [] "python" \in toks /\ "data" \in toks -> 15
      [] "python" \in toks                    -> 0
      [] "java" \in toks /\ "api" \in toks    -> 75
      [] "java" \in toks                      -> 90
      [] "data" \in toks                      -> 30
      [] "sql" \in toks                       -> 60
      [] OTHER                                -> 135

\* cosine of an angle that is a multiple of 15 degrees, in hundredths
CosCenti(d) ==
    LET a == IF d < 0 THEN 0 - d ELSE d IN
    CASE a = 0   -> 100
      [] a = 15  -> 97
      [] a = 30  -> 87
      [] a = 45  -> 71
      [] a = 60  -> 50
      [] a = 75  -> 26
      [] a = 90  -> 0
      [] a = 105 -> -26
      [] a = 120 -> -50
      [] a = 135 -> -71

\* IndexFlatIP: inner product of two normalised vectors, in hundredths
InnerProduct(u, v) == CosCenti(u - v)

(***************************************************************************)
(* Profile -> searchable text, one operator per category                   *)
(***************************************************************************)
\* _personal_info_to_text (payload: no field set but truthy, or the name)
PersonalInfoToText(personal_info) ==
    <<"ireum:">> \o personal_info \o <<"imeil:", "jeonhwa:", "geojuji:">>

\* _education_to_text (payload: relevant_courses)
EducationToText(education) ==
    <<"hakgyo:", "jeongong:", "hagwi:", "joreop:", "hakjeom:">> \o education

\* _work_experience_to_text (payload: responsibilities)
WorkExperienceToText(experience) ==
    <<"hoesa:", "jikchaek:", "buseo:", "gigan:", "~">> \o experience \o <<"timgyumo:">>

\* _project_to_text (payload: technologies)
ProjectToText(project) ==
    <<"peurojekteumyeong:", "yuhyeong:", "gigan:", "~", "seolmyeong:", "yeokhal:">>
        \o project \o <<"seonggwa:", "timgyumo:">>

\* _skills_to_text (payload: one list-valued category)
SkillsToText(skills) == skills

\* _certification_to_text (payload: name)
CertificationToText(certification) ==
    <<"jagyeokjeung:">> \o certification \o <<"balgeup:", "chwideugil:", "jeomsu:">>

\* _award_to_text (payload: name)
AwardToText(award) ==
    <<"susangmyeong:">> \o award \o <<"suyeogigwan:", "susangil:", "naeyong:">>

\* _career_goals_to_text (payload: target_companies)
CareerGoalsToText(goals) == <<"dangimokpyo:", "janggimokpyo:">> \o goals

\* _interests_to_text
InterestsToText(interests) == interests

ToText(type, data) ==
    CASE type = "personal_info"   -> PersonalInfoToText(data)
      [] type = "education"       -> EducationToText(data)
      [] type = "work_experience" -> WorkExperienceToText(data)
      [] type = "project"         -> ProjectToText(data)
      [] type = "skills"          -> SkillsToText(data)
      [] type = "certification"   -> CertificationToText(data)
      [] type = "award"           -> AwardToText(data)
      [] type = "career_goals"    -> CareerGoalsToText(data)
      [] type = "interests"       -> InterestsToText(data)

\* the value stored for a missing "index" key (None)
None == -1

\* mutant: the entry is derived whether or not the category is empty
SingleEntryAlways(type, data) ==
    << [type |-> type, data |-> data, index |-> None, text |-> ToText(type, data)] >>

\* one singleton category of add_profile_to_vectordb: "if x:" then one entry
SingleEntry(type, data) ==
    IF data = <<>> THEN <<>>
    ELSE << [type |-> type, data |-> data, index |-> None, text |-> ToText(type, data)] >>

\* one list category: for i, x in enumerate(items)
ListEntries(type, items) ==
    [i \in DOMAIN items |->
        [type |-> type, data |-> items[i], index |-> i - 1, text |-> ToText(type, items[i])]]

\* the entries add_profile_to_vectordb derives from a profile, in the order it adds them
DeriveEntries(profile_data) ==
    SingleEntry("personal_info", profile_data.personal_info)
    \o ListEntries("education", profile_data.education)
    \o ListEntries("work_experience", profile_data.work_experience)
    \o ListEntries("project", profile_data.projects)
    \o SingleEntry("skills", profile_data.skills)
    \o ListEntries("certification", profile_data.certifications)
    \o ListEntries("award", profile_data.awards)
    \o SingleEntry("career_goals", profile_data.career_goals)
    \o SingleEntry("interests", profile_data.interests)

(***************************************************************************)
(* The engine.  A world W is a record of the engine's fields and the       *)
(* files: the operators below are the methods, as functions of the world.  *)
(***************************************************************************)
World ==
    [index |-> index, data_entries |-> data_entries, metadata |-> metadata,
     keyword_index |-> keyword_index, doc_frequencies |-> doc_frequencies,
     doc_lengths |-> doc_lengths, avg_doc_length |-> avg_doc_length,
     disk |-> disk]

\* a file: state is "missing", "ok", "corrupt" (it cannot be read or parsed) or,
\* for the metadata JSON, "no_metadata_key" (it parses, without a "metadata" key).
\* a file that does not exist
NoFile == [state |-> "missing", data_entries |-> <<>>, metadata |-> <<>>, blob |-> <<>>]

\* an empty db_path directory
EmptyDisk == [index_file |-> NoFile, metadata_file |-> NoFile, entry_data |-> <<>>]

\* __init__ before _load_existing_db
NewEngine(d) ==
    [index |-> <<>>, data_entries |-> <<>>, metadata |-> <<>>,
     keyword_index |-> <<>>, doc_frequencies |-> <<>>, doc_lengths |-> <<>>,
     avg_doc_length |-> 0, disk |-> d]

\* sum(doc_lengths) / len(doc_lengths) if doc_lengths else 0, in hundredths
AvgLength(lengths) ==
    IF lengths = <<>> THEN 0 ELSE (SumSeq(lengths) * 100) \div Len(lengths)

\* the postings of _update_keyword_index after the document's tokens are added
UpdatePostings(kw, toks, doc_id) ==
    [t \in DOMAIN kw \cup toks |->
        IF t \notin toks THEN kw[t]
        ELSE IF t \notin DOMAIN kw THEN <<doc_id>>
        ELSE IF doc_id \in Range(kw[t]) THEN kw[t]
        ELSE Append(kw[t], doc_id)]

\* the while loop of _update_keyword_index, then the assignment of row doc_id
PadAndSet(rows, doc_id, row, filler) ==
    [i \in 1..(IF Len(rows) <= doc_id THEN doc_id + 1 ELSE Len(rows)) |->
        IF i = doc_id + 1 THEN row
        ELSE IF i <= Len(rows) THEN rows[i] ELSE filler]

\* _update_keyword_index
UpdateKeywordIndex(W, text, doc_id) ==
    LET tokens  == Tokenize(text)
        lengths == PadAndSet(W.doc_lengths, doc_id, Len(tokens), 0)
    IN  [W EXCEPT !.doc_frequencies = PadAndSet(W.doc_frequencies, doc_id, Counter(tokens), <<>>),
                  !.doc_lengths     = lengths,
                  !.avg_doc_length  = AvgLength(lengths),
                  !.keyword_index   = UpdatePostings(W.keyword_index, Range(tokens), doc_id)]

\* _save_entry_data: entry_data/entry_{id}.json
SaveEntryData(d, entry_id, data) ==
    [d EXCEPT !.entry_data = [i \in DOMAIN d.entry_data \cup {entry_id} |->
                                IF i = entry_id THEN data ELSE d.entry_data[i]]]

\* the content of a payload file that json.load rejects
Unparsable == <<"{">>

\* mutant: no try / except around json.load
LoadEntryDataNoTry(d, entry_id) ==
    IF entry_id \in DOMAIN d.entry_data THEN d.entry_data[entry_id] ELSE <<>>

\* _load_entry_data: {} when the file is absent or cannot be parsed
LoadEntryData(d, entry_id) ==
    IF entry_id \in DOMAIN d.entry_data /\ d.entry_data[entry_id] # Unparsable
    THEN d.entry_data[entry_id]
    ELSE <<>>

\* optimized_metadata of _add_entry
OptimizedMetadata(e, profile_name, timestamp) ==
    [type |-> e.type, profile_name |-> profile_name, timestamp |-> timestamp,
     index |-> e.index]

\* _add_entry (the encoder call succeeded)
AddEntry(W, e, profile_name, timestamp) ==
    LET entry_id == Len(W.data_entries)
        W1 == [W EXCEPT !.index        = Append(W.index, Encode(e.text)),
                        !.data_entries = Append(W.data_entries, e.text),
                        !.metadata     = Append(W.metadata,
                                             OptimizedMetadata(e, profile_name, timestamp))]
        W2 == UpdateKeywordIndex(W1, e.text, entry_id)
    IN  [W2 EXCEPT !.disk = SaveEntryData(W2.disk, entry_id, e.data)]

\* mutant: the text is appended before the encoder is called
AddEntryRaisesAfterAppend(W, e, profile_name, timestamp) ==
    [W EXCEPT !.data_entries = Append(W.data_entries, e.text)]

\* _add_entry when encoder.encode raises: it is the first statement
AddEntryRaises(W, e, profile_name, timestamp) == W

\* mutant: the index is left as it was
RebuildFaissIndexSkipped(W) == W

\* mutant: the new index is created and nothing is added to it
RebuildFaissIndexLeftEmpty(W) == [W EXCEPT !.index = <<>>]

\* _rebuild_faiss_index (the encoder call succeeded)
RebuildFaissIndex(W) ==
    [W EXCEPT !.index = [i \in DOMAIN W.data_entries |-> Encode(W.data_entries[i])]]

\* _rebuild_faiss_index when encoder.encode raises: the index was already replaced
\* by an empty one (no encoder call, and no exception, on an empty corpus)
RebuildFaissIndexRaises(W) == [W EXCEPT !.index = <<>>]

\* mutant: the scan stops at the first entry of the profile
IndicesToRemoveFirstOnly(md, profile_name) ==
    {i \in DOMAIN md : /\ md[i].profile_name = profile_name
                        /\ \A j \in 1..(i - 1) : md[j].profile_name # profile_name}

\* indices_to_remove of _remove_profile_entries
IndicesToRemove(md, profile_name) ==
    {i \in DOMAIN md : md[i].profile_name = profile_name}

\* mutant: the deletions run in ascending order, so every deletion shifts the
\* places of the ones after it
DeleteAtAscending(s, remove) ==
    LET F[i \in 0..Len(s)] ==
            IF i = 0 THEN s
            ELSE IF i \in remove /\ i <= Len(F[i - 1])
                 THEN SubSeq(F[i - 1], 1, i - 1) \o SubSeq(F[i - 1], i + 1, Len(F[i - 1]))
                 ELSE F[i - 1]
    IN  F[Len(s)]

\* the list after "del list[idx]" for every idx in reversed(remove)
DeleteAt(s, remove) ==
    LET F[i \in 0..Len(s)] ==
            IF i = 0 THEN <<>>
            ELSE IF i \in remove THEN F[i - 1] ELSE Append(F[i - 1], s[i])
    IN  F[Len(s)]

\* mutant: the texts are deleted, the metadata rows are not
PurgeProfileTextsOnly(W, profile_name) ==
    [W EXCEPT !.data_entries = DeleteAt(W.data_entries, IndicesToRemove(W.metadata, profile_name))]

\* _remove_profile_entries up to the call of _rebuild_faiss_index
PurgeProfile(W, profile_name) ==
    LET remove == IndicesToRemove(W.metadata, profile_name) IN
    [W EXCEPT !.data_entries = DeleteAt(W.data_entries, remove),
              !.metadata     = DeleteAt(W.metadata, remove)]

\* _remove_profile_entries
RemoveProfileEntries(W, profile_name) ==
    IF IndicesToRemove(W.metadata, profile_name) = {} THEN W
    ELSE RebuildFaissIndex(PurgeProfile(W, profile_name))

\* save_db: the index blob, then the metadata JSON
SaveDb(W) ==
    [W EXCEPT !.disk.index_file    = [NoFile EXCEPT !.state = "ok", !.blob = W.index],
              !.disk.metadata_file = [NoFile EXCEPT !.state = "ok",
                                         !.data_entries = W.data_entries,
                                         !.metadata = W.metadata]]

\* mutant: files whose entry counts differ are not loaded
LoadExistingDbChecked(W) ==
    LET ix == W.disk.index_file
        md == W.disk.metadata_file
    IN  IF ix.state = "missing" \/ md.state = "missing" THEN W
        ELSE IF ix.state = "corrupt" THEN W
        ELSE IF md.state = "corrupt" THEN [W EXCEPT !.index = ix.blob]
        ELSE IF md.state = "no_metadata_key"
             THEN [W EXCEPT !.index = ix.blob, !.data_entries = md.data_entries]
        ELSE IF Len(ix.blob) # Len(md.metadata) THEN W
        ELSE [W EXCEPT !.index = ix.blob, !.data_entries = md.data_entries,
                       !.metadata = md.metadata]

\* _load_existing_db, on the engine __init__ has just set up
LoadExistingDb(W) ==
    LET ix == W.disk.index_file
        md == W.disk.metadata_file
    IN  IF ix.state = "missing" \/ md.state = "missing" THEN W
        ELSE IF ix.state = "corrupt" THEN W          \* faiss.read_index raises
        ELSE IF md.state = "corrupt"                 \* json.load raises
             THEN [W EXCEPT !.index = ix.blob]
        ELSE IF md.state = "no_metadata_key"         \* data["metadata"] raises
             THEN [W EXCEPT !.index = ix.blob, !.data_entries = md.data_entries]
        ELSE [W EXCEPT !.index = ix.blob, !.data_entries = md.data_entries,
                       !.metadata = md.metadata]

\* UnifiedVectorDB(db_path)
Construct(d) == LoadExistingDb(NewEngine(d))

\* the timestamp of the j-th entry of a call that starts at time t: the clock
\* advances between two entries, or (coarse clock) does not
TimestampOf(t, j, coarse) == IF coarse THEN t ELSE t + j - 1

\* the adds of add_profile_to_vectordb, for the first n derived entries
RECURSIVE AddEntries(_, _, _, _, _, _)
AddEntries(W, entries, n, profile_name, t, coarse) ==
    IF n = 0 THEN W
    ELSE AddEntry(AddEntries(W, entries, n - 1, profile_name, t, coarse),
                  entries[n], profile_name, TimestampOf(t, n, coarse))

\* add_profile_to_vectordb, no exception
AddProfileToVectordb(W, profile_data, profile_name, t, coarse) ==
    LET entries == DeriveEntries(profile_data)
        W1 == RemoveProfileEntries(W, profile_name)
    IN  SaveDb(AddEntries(W1, entries, Len(entries), profile_name, t, coarse))

\* the entry ids add_profile_to_vectordb returns
EntryIds(W, profile_data, profile_name) ==
    LET base == Len(RemoveProfileEntries(W, profile_name).data_entries) IN
    [j \in DOMAIN DeriveEntries(profile_data) |-> base + j - 1]

\* get_db_stats
GetDbStats(W) ==
    [total_entries |-> Len(W.data_entries),
     type_counts |-> [t \in {W.metadata[i].type : i \in DOMAIN W.metadata} |->
                         Cardinality({i \in DOMAIN W.metadata : W.metadata[i].type = t})],
     profile_counts |-> [n \in {W.metadata[i].profile_name : i \in DOMAIN W.metadata} |->
                         Cardinality({i \in DOMAIN W.metadata : W.metadata[i].profile_name = n})],
     index_size |-> Len(W.index)]

\* type_counts of get_profile_summary
ProfileTypeCounts(W, profile_name) ==
    LET mine == {i \in DOMAIN W.metadata : W.metadata[i].profile_name = profile_name} IN
    [t \in {W.metadata[i].type : i \in mine} |->
        Cardinality({i \in mine : W.metadata[i].type = t})]

\* get_entry_with_data
GetEntryRaises(W, entry_id) ==
    entry_id < Len(W.metadata) /\ entry_id >= Len(W.data_entries)

\* get_entry_with_data, when it does not raise
GetEntryWithData(W, entry_id) ==
    IF entry_id >= Len(W.metadata) THEN <<>>
    ELSE LET m == W.metadata[entry_id + 1] IN
         [type |-> m.type, profile_name |-> m.profile_name, timestamp |-> m.timestamp,
          index |-> m.index, data |-> LoadEntryData(W.disk, entry_id),
          text |-> W.data_entries[entry_id + 1]]

(***************************************************************************)
(* Query expansion.  The tables are the rows of the source's tables that   *)
(* a key or a value of can occur in a query over the model's words.        *)
(***************************************************************************)
synonyms ==
    << [key |-> "baegendeu", values |-> <<"backend", "seobeo", "server", "API", "seobeosaideu">>],
       [key |-> "paisseon", values |-> <<"python", "django", "flask", "fastapi", "py">>],
       [key |-> "deiteobeiseu",
        values |-> <<"database", "db", "mysql", "postgresql", "mongodb", "sql">>],
       [key |-> "SQL", values |-> <<"deiteobeiseu", "kwori", "join", "jipgye", "bunseok">>] >>

tech_relations ==
    << [key |-> "python",
        values |-> <<"pandas", "numpy", "scikit-learn", "deiteobunseok", "meosinreoning">>],
       [key |-> "pandas", values |-> <<"deiteopeureim", "jeoncheori", "deiteojojak", "bunseok">>] >>

data_contexts ==
    << [key |-> "bunseok", values |-> <<"deiteobunseok", "tonggye", "insaiteu", "ripoting">>] >>

\* "term in word" for a lower-cased word of the model: substring
IsSubstring(term, word) ==
    term = word \/ <<term, word>> \in {<<"py", "python">>}

\* "term in query_lower"
InQueryLower(term, query) == \E i \in DOMAIN query : IsSubstring(term, Lower(query[i]))

\* list(dict.fromkeys(terms)): first occurrences, in order
RECURSIVE Unique(_)
Unique(terms) ==
    IF terms = <<>> THEN <<>>
    ELSE LET init == Unique(SubSeq(terms, 1, Len(terms) - 1))
             x    == terms[Len(terms)]
         IN  IF x \in Range(init) THEN init ELSE Append(init, x)

\* the terms one synonyms row appends: values[:4] on a key hit, then, for every
\* value that occurs in the query, the key and the first three other values
SynonymTerms(row, query) ==
    (IF InQueryLower(row.key, query) THEN Take(row.values, 4) ELSE <<>>)
    \o Flatten([i \in DOMAIN row.values |->
            IF InQueryLower(row.values[i], query)
            THEN <<row.key>> \o Take(SelectSeq(row.values, LAMBDA v : v # row.values[i]), 3)
            ELSE <<>>])

\* values[:n] of every row of a table whose key occurs in the query
RelatedTerms(table, query, n) ==
    Flatten([i \in DOMAIN table |->
        IF InQueryLower(table[i].key, query) THEN Take(table[i].values, n) ELSE <<>>])

\* unique_terms[1:]: the appended terms, without duplicates and without a term
\* equal to the whole query string
ExpansionTerms(query) ==
    LET terms == Flatten([i \in DOMAIN synonyms |-> SynonymTerms(synonyms[i], query)])
                 \o RelatedTerms(tech_relations, query, 3)
                 \o RelatedTerms(data_contexts, query, 2)
    IN  SelectSeq(Unique(terms), LAMBDA x : query # <<x>>)

\* _expand_query: the query five times, then the appended terms
ExpandQuery(query) ==
    query \o query \o query \o query \o query \o ExpansionTerms(query)

(***************************************************************************)
(* Scores: fixed point, One == 1.0                                         *)
(***************************************************************************)
One == 1000 * 1000

\* type_weights.get(entry_type, 1.0), in tenths
TypeWeight(type) ==
    CASE type = "work_experience" -> 15
      [] type = "project"         -> 14
      [] type = "skills"          -> 13
      [] type = "education"       -> 11
      [] type = "award"           -> 11
      [] type = "career_goals"    -> 10
      [] type = "personal_info"   -> 9
      [] type = "interests"       -> 8
      [] OTHER                    -> 10

\* data_ai_keywords, the ones a text over the model's words can contain
data_ai_keywords == {"python", "sql"}

\* keyword_bonus of _semantic_search, in hundredths: 0.05 per keyword found
KeywordBonus(text) ==
    5 * Cardinality({k \in data_ai_keywords : \E i \in DOMAIN text : Lower(text[i]) = k})

\* final_score of _semantic_search from the raw inner product (hundredths)
FinalScore(raw, type, text) ==
    raw * TypeWeight(type) * (100 + Min(KeywordBonus(text), 30)) * 10

\* index.search(query_embedding, search_k): the search_k positions of largest
\* inner product, best first (equal products: lower position first)
IndexSearch(ix, qv, search_k) ==
    Take(SortByScoreDesc([i \in DOMAIN ix |->
            [idx |-> i - 1, score |-> InnerProduct(qv, ix[i])]]), search_k)

\* mutant: the data type filter is forgotten
PassesFiltersProfileOnly(m, profile_name, data_types) ==
    profile_name # "" => m.profile_name = profile_name

\* the profile and data type filters of both searches
PassesFilters(m, profile_name, data_types) ==
    /\ (profile_name # "" => m.profile_name = profile_name)
    /\ (data_types # {} => m.type \in data_types)

\* the candidates _semantic_search looks at: score >= min_score
SemanticHits(W, query, top_k, min_score) ==
    SelectSeq(IndexSearch(W.index, Encode(query), Min(top_k * 3, Len(W.index))),
              LAMBDA c : c.score * (One \div 100) >= min_score)

\* _semantic_search raises IndexError: a hit beyond the metadata, or a filtered
\* hit beyond the texts
SemanticRaises(W, query, profile_name, data_types, top_k, min_score) ==
    \E c \in Range(SemanticHits(W, query, top_k, min_score)) :
        \/ c.idx >= Len(W.metadata)
        \/ /\ PassesFilters(W.metadata[c.idx + 1], profile_name, data_types)
           /\ c.idx >= Len(W.data_entries)

\* _semantic_search, when it does not raise
SemanticSearch(W, query, profile_name, data_types, top_k, min_score) ==
    LET hits == SelectSeq(SemanticHits(W, query, top_k, min_score),
                    LAMBDA c : PassesFilters(W.metadata[c.idx + 1], profile_name, data_types))
        results == [i \in DOMAIN hits |->
            LET m    == W.metadata[hits[i].idx + 1]
                text == W.data_entries[hits[i].idx + 1]
            IN  [metadata |-> m,
                 score |-> FinalScore(hits[i].score, m.type, text),
                 original_score |-> hits[i].score * (One \div 100),
                 type_weight |-> TypeWeight(m.type),
                 keyword_bonus |-> KeywordBonus(text),
                 text |-> text,
                 search_method |-> "semantic_similarity_data_ai"]]
    IN  Take(SortByScoreDesc(results), top_k)

\* _build_keyword_index
BuildKeywordIndex(W) ==
    LET toks(i) == Tokenize(W.data_entries[i])
        all == UNION {Range(toks(i)) : i \in DOMAIN W.data_entries}
        lengths == [i \in DOMAIN W.data_entries |-> Len(toks(i))]
    IN  [W EXCEPT !.keyword_index =
                      [t \in all |-> LET F[i \in 0..Len(W.data_entries)] ==
                                            IF i = 0 THEN <<>>
                                            ELSE IF t \in Range(toks(i))
                                                 THEN Append(F[i - 1], i - 1)
                                                 ELSE F[i - 1]
                                     IN  F[Len(W.data_entries)]],
                  !.doc_frequencies = [i \in DOMAIN W.data_entries |-> Counter(toks(i))],
                  !.doc_lengths = lengths,
                  !.avg_doc_length = AvgLength(lengths)]

\* math.log of an odd number, in thousandths
LnMilli(k) ==
    CASE k = 1 -> 0     [] k = 3 -> 1099  [] k = 5 -> 1609  [] k = 7 -> 1946
      [] k = 9 -> 2197  [] k = 11 -> 2398 [] k = 13 -> 2565 [] k = 15 -> 2708
      [] k = 17 -> 2833 [] k = 19 -> 2944 [] k = 21 -> 3045 [] k = 23 -> 3135
      [] k = 25 -> 3219 [] k = 27 -> 3296 [] k = 29 -> 3367 [] k = 31 -> 3434
      [] k = 33 -> 3497 [] k = 35 -> 3555 [] k = 37 -> 3611 [] k = 39 -> 3664
      [] k = 41 -> 3714

\* idf = math.log((N - df + 0.5) / (df + 0.5)), in thousandths (df <= N)
Idf(N, df) == LnMilli(2 * (N - df) + 1) - LnMilli(2 * df + 1)

\* one term of the BM25 sum, k1 = 1.5 and b = 0.75:
\* idf * tf * 2.5 / (tf + 1.5 * (0.25 + 0.75 * doc_len / avg)), idf in
\* thousandths and avg in hundredths; the term is kept to the thousandth
Bm25Term(idf, tf, doc_len, avg) ==
    ((idf * 20 * tf * avg) \div (8 * tf * avg + 3 * avg + 900 * doc_len)) * (One \div 1000)

\* _calculate_bm25_scores raises: math.log of a non-positive number (ValueError),
\* division by a zero average length (ZeroDivisionError), or a posting beyond
\* the scores list (IndexError)
Bm25Raises(W, query_tokens) ==
    LET N == Len(W.data_entries) IN
    \E t \in Range(query_tokens) \cap DOMAIN W.keyword_index :
        \/ Len(W.keyword_index[t]) > N
        \/ \E d \in Range(W.keyword_index[t]) : W.avg_doc_length = 0 \/ d >= N

\* _calculate_bm25_scores, when it does not raise: the score of document doc_id
Bm25Score(W, query_tokens, doc_id) ==
    LET N == Len(W.data_entries)
        term(t) ==
            IF t \in DOMAIN W.keyword_index /\ doc_id \in Range(W.keyword_index[t])
            THEN Bm25Term(Idf(N, Len(W.keyword_index[t])),
                          CountOf(W.doc_frequencies[doc_id + 1], t),
                          W.doc_lengths[doc_id + 1], W.avg_doc_length)
            ELSE 0
    IN  SumSeq([i \in DOMAIN query_tokens |-> term(query_tokens[i])])

\* the engine after the first two lines of _keyword_search
EnsureKeywordIndex(W) ==
    IF DOMAIN W.keyword_index = {} THEN BuildKeywordIndex(W) ELSE W

\* _keyword_search raises (on the engine after EnsureKeywordIndex)
KeywordRaises(W, query) == Bm25Raises(W, Tokenize(query))

\* _keyword_search, when it does not raise (on the engine after EnsureKeywordIndex)
KeywordSearch(W, query, profile_name, data_types, top_k, min_score) ==
    LET query_tokens == Tokenize(query)
        scored == [i \in DOMAIN W.data_entries |->
                      [doc_id |-> i - 1, score |-> Bm25Score(W, query_tokens, i - 1)]]
        candidate_docs == SortByScoreDesc(SelectSeq(scored, LAMBDA c : c.score > min_score))
        kept == SelectSeq(Take(candidate_docs, top_k * 2),
                    LAMBDA c : /\ c.doc_id < Len(W.metadata)
                               /\ PassesFilters(W.metadata[c.doc_id + 1],
                                                profile_name, data_types))
    IN  Take([i \in DOMAIN kept |->
                [metadata |-> W.metadata[kept[i].doc_id + 1],
                 score |-> kept[i].score,
                 text |-> W.data_entries[kept[i].doc_id + 1],
                 search_method |-> "keyword_bm25"]], top_k)

\* _get_result_key
GetResultKey(result) ==
    <<result.metadata.profile_name, result.metadata.type, result.metadata.timestamp>>

\* combined_results[key] = value: a new key goes last, a known key keeps its place
DictSet(d, key, value) ==
    IF \E i \in DOMAIN d : d[i].key = key
    THEN [i \in DOMAIN d |-> IF d[i].key = key THEN [key |-> key, value |-> value] ELSE d[i]]
    ELSE Append(d, [key |-> key, value |-> value])

\* the first loop of _hybrid_search
RECURSIVE MergeSemantic(_, _)
MergeSemantic(semantic_results, n) ==
    IF n = 0 THEN <<>>
    ELSE LET result == semantic_results[n] IN
         DictSet(MergeSemantic(semantic_results, n - 1), GetResultKey(result),
                 result @@ [semantic_score |-> result.score, keyword_score |-> 0,
                            combined_score |-> (result.score * 7) \div 10])

\* one step of the second loop of _hybrid_search
MergeKeywordResult(d, result) ==
    LET key == GetResultKey(result) IN
    IF \E i \in DOMAIN d : d[i].key = key
    THEN [i \in DOMAIN d |->
            IF d[i].key = key
            THEN [d[i] EXCEPT !.value.keyword_score = result.score,
                              !.value.combined_score =
                                  (d[i].value.semantic_score * 7 + result.score * 3) \div 10]
            ELSE d[i]]
    ELSE Append(d, [key |-> key,
                    value |-> result @@ [semantic_score |-> 0, keyword_score |-> result.score,
                                         combined_score |-> (result.score * 3) \div 10]])

\* the second loop of _hybrid_search
RECURSIVE MergeKeyword(_, _, _)
MergeKeyword(d, keyword_results, n) ==
    IF n = 0 THEN d
    ELSE MergeKeywordResult(MergeKeyword(d, keyword_results, n - 1), keyword_results[n])

\* the last lines of _hybrid_search: sort by combined_score, set score and method
FinalResults(d, top_k) ==
    Take(SortByScoreDesc([i \in DOMAIN d |->
            [d[i].value EXCEPT !.score = d[i].value.combined_score,
                               !.search_method = "hybrid_semantic_keyword"]]), top_k)

\* _hybrid_search, when neither search raises (on the engine after EnsureKeywordIndex)
HybridSearch(W, query, profile_name, data_types, top_k, min_score) ==
    LET semantic_results == SemanticSearch(W, query, profile_name, data_types,
                                           top_k * 2, (min_score * 7) \div 10)
        keyword_results  == KeywordSearch(W, query, profile_name, data_types,
                                          top_k * 2, (min_score * 5) \div 10)
    IN  FinalResults(MergeKeyword(MergeSemantic(semantic_results, Len(semantic_results)),
                                  keyword_results, Len(keyword_results)), top_k)

\* the outcome of a search: the engine afterwards, whether it raised, the
\* results, and whether the call asked for the embedding of the query
\* (encoder.encode, on a query_cache miss)
Outcome(W, raised, results, encoded) ==
    [W |-> W, raised |-> raised, results |-> IF raised THEN <<>> ELSE results,
     encoded |-> encoded]

\* mutant: an unknown mode runs the semantic search
DispatchUnknownToSemantic(search_mode) ==
    CASE search_mode = "hybrid"   -> "_hybrid_search"
      [] search_mode = "semantic" -> "_semantic_search"
      [] search_mode = "keyword"  -> "_keyword_search"
      [] OTHER                    -> "_semantic_search"

\* the if / elif / else chain of search_unified_profile: the method a mode runs
Dispatch(search_mode) ==
    CASE search_mode = "hybrid"   -> "_hybrid_search"
      [] search_mode = "semantic" -> "_semantic_search"
      [] search_mode = "keyword"  -> "_keyword_search"
      [] OTHER                    -> "_hybrid_search"

\* search_unified_profile after the empty-index test
SearchByMode(W, query, profile_name, data_types, top_k, min_score, search_mode) ==
    LET expanded_query == ExpandQuery(query)
    IN  IF Dispatch(search_mode) = "_semantic_search"
        THEN Outcome(W,
                 SemanticRaises(W, expanded_query, profile_name, data_types, top_k, min_score),
                 SemanticSearch(W, expanded_query, profile_name, data_types, top_k, min_score),
                 TRUE)
        ELSE IF Dispatch(search_mode) = "_keyword_search"
        THEN LET Wk == EnsureKeywordIndex(W) IN
             Outcome(Wk, KeywordRaises(Wk, expanded_query),
                 KeywordSearch(Wk, expanded_query, profile_name, data_types, top_k, min_score),
                 FALSE)
        ELSE IF SemanticRaises(W, expanded_query, profile_name, data_types,
                               top_k * 2, (min_score * 7) \div 10)
        THEN Outcome(W, TRUE, <<>>, TRUE)
        ELSE LET Wk == EnsureKeywordIndex(W) IN
             Outcome(Wk, KeywordRaises(Wk, expanded_query),
                 HybridSearch(Wk, expanded_query, profile_name, data_types, top_k, min_score),
                 TRUE)

\* mutant: no early return on an empty index
SearchWithoutEmptyCheck(W, query, profile_name, data_types, top_k, min_score, search_mode) ==
    SearchByMode(W, query, profile_name, data_types, top_k, min_score, search_mode)

\* search_unified_profile
SearchUnifiedProfile(W, query, profile_name, data_types, top_k, min_score, search_mode) ==
    IF Len(W.index) = 0 THEN Outcome(W, FALSE, <<>>, FALSE)
    ELSE SearchByMode(W, query, profile_name, data_types, top_k, min_score, search_mode)

(***************************************************************************)
(* Inputs of the model                                                     *)
(***************************************************************************)
ProfileNames == {"Alice", "Bob"}

EmptyProfile ==
    [personal_info |-> <<>>, education |-> <<>>, work_experience |-> <<>>,
     projects |-> <<>>, skills |-> <<>>, certifications |-> <<>>, awards |-> <<>>,
     career_goals |-> <<>>, interests |-> <<>>]

\* the profiles a caller passes
Profiles ==
    << [EmptyProfile EXCEPT !.work_experience = << <<"Python", "data">> >>],
       [EmptyProfile EXCEPT !.work_experience = << <<"Python", "data">>, <<"Java">> >>],
       [EmptyProfile EXCEPT !.work_experience = << <<"Java", "API">> >>],
       [EmptyProfile EXCEPT !.skills = <<"Python", "SQL">>, !.interests = <<"a">>],
       EmptyProfile >>

\* the (profile_name, profile) pairs a caller syncs: Alice's profile in two
\* versions and empty, Bob's in two versions
SyncInputs ==
    {<<"Alice", 1>>, <<"Alice", 2>>, <<"Alice", 5>>, <<"Bob", 3>>, <<"Bob", 4>>}

Queries == {<<"Python">>, <<"Java", "API">>}

ProfileFilters == {"", "Alice", "Bob"}

TypeFilters == {{}, {"work_experience"}}

\* (top_k, min_score): min_score is 0.1 by default
Limits == {<<1, One \div 2>>, <<3, 0>>}

SearchModes == {"semantic", "keyword", "hybrid", "fuzzy"}

\* the arguments of one search_unified_profile call
Requests ==
    [query : Queries, profile_name : ProfileFilters, data_types : TypeFilters,
     limits : Limits, search_mode : SearchModes]


(***************************************************************************)
(* State machine                                                           *)
(***************************************************************************)
\* op: the operation; profile_name, profile, entry_ids: the arguments and the
\* result of a sync; purged: how many entries the sync removed first; repeat:
\* the sync repeats the call just before it; raised: the operation raised;
\* step: the entry whose _add_entry raised (0: none)
NoOp ==
    [op |-> "init", profile_name |-> "", profile |-> 0, entry_ids |-> <<>>,
     purged |-> 0, repeat |-> FALSE, raised |-> FALSE, step |-> 0]

SetWorld(W) ==
    /\ index' = W.index
    /\ data_entries' = W.data_entries
    /\ metadata' = W.metadata
    /\ keyword_index' = W.keyword_index
    /\ doc_frequencies' = W.doc_frequencies
    /\ doc_lengths' = W.doc_lengths
    /\ avg_doc_length' = W.avg_doc_length
    /\ disk' = W.disk

\* a new engine on an empty directory
Init ==
    /\ index = <<>> /\ data_entries = <<>> /\ metadata = <<>>
    /\ keyword_index = <<>> /\ doc_frequencies = <<>> /\ doc_lengths = <<>>
    /\ avg_doc_length = 0
    /\ disk = EmptyDisk
    /\ now = 0
    /\ last = NoOp
    /\ NoWorkflow /\ writer = NoWriter

\* the clock after a call that started at t and added n entries
ClockAfter(t, n, coarse) == IF coarse \/ n = 0 THEN t + 1 ELSE t + n

\* add_profile_to_vectordb(Profiles[p], profile_name) returns
Sync(profile_name, p, coarse) ==
    LET n == Len(DeriveEntries(Profiles[p])) IN
    /\ ClockAfter(now, n, coarse) <= MaxClock
    /\ coarse => n >= 2
    /\ \E W \in {AddProfileToVectordb(World, Profiles[p], profile_name, now, coarse)} :
           SetWorld(W)
    /\ now' = ClockAfter(now, n, coarse)
    /\ last' = [NoOp EXCEPT !.op = "sync", !.profile_name = profile_name, !.profile = p,
                            !.entry_ids = EntryIds(World, Profiles[p], profile_name),
                            !.purged = Cardinality(IndicesToRemove(metadata, profile_name)),
                            !.repeat = /\ last.op = "sync"
                                       /\ last.profile_name = profile_name
                                       /\ last.profile = p]
    /\ UNCHANGED <<workflow, writer>>

\* the process restarts: UnifiedVectorDB() on the same db_path
Restart ==
    /\ \E W \in {Construct(disk)} : SetWorld(W)
    /\ now' = now
    /\ last' = [NoOp EXCEPT !.op = "construct"]
    /\ UNCHANGED <<workflow, writer>>

\* search_unified_profile(...) returns or raises
Search(req) ==
    \E out \in {SearchUnifiedProfile(World, req.query, req.profile_name, req.data_types,
                                      req.limits[1], req.limits[2], req.search_mode)} :
    /\ SetWorld(out.W)
    /\ now' = now
    /\ last' = [NoOp EXCEPT !.op = "search", !.raised = out.raised]
    /\ UNCHANGED <<workflow, writer>>

\* add_profile_to_vectordb raises: the encoder fails in the index rebuild that
\* follows the purge (k = 0), or when the k-th derived entry is added; save_db
\* is not reached
SyncRaises(profile_name, p, coarse, k) ==
    LET entries == DeriveEntries(Profiles[p])
        purged  == PurgeProfile(World, profile_name)
        t       == IF k = 0 THEN now + 1 ELSE ClockAfter(now, k - 1, coarse)
    IN
    /\ t <= MaxClock
    /\ coarse => Len(entries) >= 2
    /\ k <= Len(entries)
    /\ k = 0 => /\ IndicesToRemove(metadata, profile_name) # {}
                /\ purged.data_entries # <<>>
    /\ \E W \in {IF k = 0 THEN RebuildFaissIndexRaises(purged)
                  ELSE AddEntryRaises(
                           AddEntries(RemoveProfileEntries(World, profile_name),
                                      entries, k - 1, profile_name, now, coarse),
                           entries[k], profile_name, TimestampOf(now, k, coarse))} :
           SetWorld(W)
    /\ now' = t
    /\ last' = [NoOp EXCEPT !.op = "sync", !.profile_name = profile_name, !.profile = p,
                            !.purged = Cardinality(IndicesToRemove(metadata, profile_name)),
                            !.raised = TRUE, !.step = k]
    /\ UNCHANGED <<workflow, writer>>

\* a file of db_path is lost or damaged while no engine writes it
DamageFile(file, state) ==
    /\ disk[file].state = "ok"
    /\ disk' = [disk EXCEPT ![file].state = state]
    /\ last' = [NoOp EXCEPT !.op = "damage"]
    /\ UNCHANGED <<index, data_entries, metadata, keyword_index, doc_frequencies,
                   doc_lengths, avg_doc_length, now>>
    /\ UNCHANGED <<workflow, writer>>

Next ==
    \/ \E in \in SyncInputs, coarse \in BOOLEAN : Sync(in[1], in[2], coarse)
    \/ Restart
    \/ \E req \in Requests : Search(req)

Spec == Init /\ [][Next]_vars

\* the payload file of a stored entry is deleted or overwritten with text that
\* is not JSON, while no engine writes it
DamagePayload(entry_id, state) ==
    /\ last.op # "damage_payload"
    /\ entry_id < Len(metadata)
    /\ entry_id \in DOMAIN disk.entry_data
    /\ disk.entry_data[entry_id] # Unparsable
    /\ disk' = [disk EXCEPT !.entry_data =
                    IF state = "missing"
                    THEN [i \in DOMAIN disk.entry_data \ {entry_id} |-> disk.entry_data[i]]
                    ELSE [disk.entry_data EXCEPT ![entry_id] = Unparsable]]
    /\ last' = [NoOp EXCEPT !.op = "damage_payload", !.entry_ids = <<entry_id>>]
    /\ UNCHANGED <<index, data_entries, metadata, keyword_index, doc_frequencies,
                   doc_lengths, avg_doc_length, now>>
    /\ UNCHANGED <<workflow, writer>>

\* the profiles synced where payload files are damaged
PayloadSyncInputs == {<<"Alice", 2>>, <<"Bob", 3>>, <<"Bob", 4>>}

\* payload files may be lost or damaged between calls
NextPayload ==
    \/ \E in \in PayloadSyncInputs, coarse \in BOOLEAN : Sync(in[1], in[2], coarse)
    \/ \E entry_id \in 0..2, state \in {"missing", "corrupt"} :
           DamagePayload(entry_id, state)

SpecPayload == Init /\ [][NextPayload]_vars

\* the encoder may fail
NextFail ==
    \/ Next
    \/ \E in \in SyncInputs, coarse \in BOOLEAN, k \in 0..2 :
           SyncRaises(in[1], in[2], coarse, k)

SpecFail == Init /\ [][NextFail]_vars

\* the files may be lost or damaged between two runs of the process
NextLoad ==
    \/ \E in \in SyncInputs, coarse \in BOOLEAN : Sync(in[1], in[2], coarse)
    \/ Restart
    \/ \E file \in {"index_file", "metadata_file"},
          state \in {"missing", "corrupt", "no_metadata_key"} :
           /\ state = "no_metadata_key" => file = "metadata_file"
           /\ DamageFile(file, state)

SpecLoad == Init /\ [][NextLoad]_vars

(***************************************************************************)
(* _calculate_bm25_scores as a function of the corpus and the query tokens *)
(***************************************************************************)
\* the lists a work experience carries in its responsibilities: the token "java"
\* twice, once, and not at all, in lists of equal length
DocKinds ==
    {<<"Java", "Java", "go">>, <<"Java", "rust", "go">>, <<"kotlin", "rust", "go">>}

\* the largest corpus
MaxDocs == 4

\* all sequences over S of length n
SeqsOfLen(S, n) == [1..n -> S]

\* the corpora: one profile with up to MaxDocs work experiences
Corpora == UNION {SeqsOfLen(DocKinds, n) : n \in 0..MaxDocs}

\* the token lists _keyword_search passes to _calculate_bm25_scores
Bm25Queries == {<<"java">>, <<"java", "kotlin">>}

\* an engine on an empty directory after one add_profile_to_vectordb
InitBm25 ==
    \E docs \in Corpora :
        \E W \in {AddProfileToVectordb(NewEngine(EmptyDisk),
                       [EmptyProfile EXCEPT !.work_experience = docs],
                       "Alice", 0, FALSE)} :
            /\ index = W.index /\ data_entries = W.data_entries
            /\ metadata = W.metadata /\ keyword_index = W.keyword_index
            /\ doc_frequencies = W.doc_frequencies /\ doc_lengths = W.doc_lengths
            /\ avg_doc_length = W.avg_doc_length /\ disk = W.disk
            /\ now = Len(docs)
            /\ last = [NoOp EXCEPT !.op = "sync", !.profile_name = "Alice"]
            /\ NoWorkflow /\ writer = NoWriter

\* _calculate_bm25_scores(query_tokens) returns the list of scores, or raises
CalculateBm25Scores(query_tokens) ==
    /\ last' = [op |-> "bm25", query_tokens |-> query_tokens,
                raised |-> Bm25Raises(World, query_tokens),
                scores |-> IF Bm25Raises(World, query_tokens) THEN <<>>
                           ELSE [d \in DOMAIN data_entries |->
                                    Bm25Score(World, query_tokens, d - 1)]]
    /\ UNCHANGED <<index, data_entries, metadata, keyword_index, doc_frequencies,
                   doc_lengths, avg_doc_length, disk, now>>
    /\ UNCHANGED <<workflow, writer>>

NextBm25 == \E query_tokens \in Bm25Queries : CalculateBm25Scores(query_tokens)

SpecBm25 == InitBm25 /\ [][NextBm25]_vars

(***************************************************************************)
(* search_unified_profile as a function of the corpus: Bob's profile with  *)
(* several work experiences, Alice's with at most one                      *)
(***************************************************************************)
\* the most work experiences of Bob
MaxOthers == 4

\* the responsibilities of one work experience of Bob
OtherDocKinds == {<<"Python">>, <<"Java">>}

\* the work_experience list of Alice
OwnDocs == {<<>>, << <<"Python", "data">> >>, << <<"Java", "API">> >>, << <<"data">> >>}

\* a new engine after add_profile_to_vectordb for Bob, then for Alice
InitFiltered ==
    \E n \in 0..MaxOthers : \E others \in SeqsOfLen(OtherDocKinds, n), own \in OwnDocs :
        \E W \in {AddProfileToVectordb(
                      AddProfileToVectordb(NewEngine(EmptyDisk),
                          [EmptyProfile EXCEPT !.work_experience = others], "Bob", 0, FALSE),
                      [EmptyProfile EXCEPT !.work_experience = own], "Alice",
                      ClockAfter(0, n, FALSE), FALSE)} :
            /\ index = W.index /\ data_entries = W.data_entries
            /\ metadata = W.metadata /\ keyword_index = W.keyword_index
            /\ doc_frequencies = W.doc_frequencies /\ doc_lengths = W.doc_lengths
            /\ avg_doc_length = W.avg_doc_length /\ disk = W.disk
            /\ now = ClockAfter(ClockAfter(0, n, FALSE), Len(own), FALSE)
            /\ last = [NoOp EXCEPT !.op = "sync", !.profile_name = "Alice"]
            /\ NoWorkflow /\ writer = NoWriter

NextFiltered == \E req \in Requests : Search(req)

SpecFiltered == InitFiltered /\ [][NextFiltered]_vars

(***************************************************************************)
(* _expand_query as a function of the query                                *)
(***************************************************************************)
\* the words of a query: keys and values of the tables, in both letter cases
QueryWords == {"SQL", "sql", "Python", "paisseon", "bunseok", "pandas", "API"}

\* the most words of a query
MaxQueryWords == 2

ExpandQueries == UNION {SeqsOfLen(QueryWords, n) : n \in 1..MaxQueryWords}

\* a new engine on an empty directory, and the query a caller is about to pass
InitExpand ==
    /\ index = <<>> /\ data_entries = <<>> /\ metadata = <<>>
    /\ keyword_index = <<>> /\ doc_frequencies = <<>> /\ doc_lengths = <<>>
    /\ avg_doc_length = 0
    /\ disk = EmptyDisk
    /\ now = 0
    /\ \E query \in ExpandQueries :
          last = [op |-> "query", query |-> query, expanded_query |-> <<>>]
    /\ NoWorkflow /\ writer = NoWriter

\* _expand_query(query) returns
ExpandQueryCall ==
    /\ last.op = "query"
    /\ last' = [last EXCEPT !.op = "expand", !.expanded_query = ExpandQuery(last.query)]
    /\ UNCHANGED <<index, data_entries, metadata, keyword_index, doc_frequencies,
                   doc_lengths, avg_doc_length, disk, now>>
    /\ UNCHANGED <<workflow, writer>>

NextExpand == ExpandQueryCall

SpecExpand == InitExpand /\ [][NextExpand]_vars

(***************************************************************************)
(* add_profile_to_vectordb as a function of the profile                    *)
(***************************************************************************)
\* the most items of a list category
MaxItems == 2

\* a list category: up to MaxItems items, each with one word in its field
ItemLists == UNION {SeqsOfLen({<<"data">>}, n) : n \in 0..MaxItems}

\* a singleton category: missing or empty, or with one word in its field
Singletons == {<<>>, <<"Python">>}

\* the profiles a caller passes
DerivableProfiles ==
    [personal_info : Singletons, education : ItemLists, work_experience : ItemLists,
     projects : ItemLists, skills : Singletons, certifications : ItemLists,
     awards : ItemLists, career_goals : Singletons, interests : Singletons]

\* the syncs before the call: none, Bob's profile, or Alice's and then Bob's
PriorSyncs == {<<>>, <<"Bob">>, <<"Alice", "Bob">>}

RECURSIVE AfterPriorSyncs(_, _)
AfterPriorSyncs(names, n) ==
    IF n = 0 THEN NewEngine(EmptyDisk)
    ELSE AddProfileToVectordb(AfterPriorSyncs(names, n - 1), Profiles[2], names[n],
                              2 * (n - 1), FALSE)

\* an engine after the prior syncs, and the profile a caller is about to pass
InitDerive ==
    \E names \in PriorSyncs, profile_data \in DerivableProfiles :
        \E W \in {AfterPriorSyncs(names, Len(names))} :
            /\ index = W.index /\ data_entries = W.data_entries
            /\ metadata = W.metadata /\ keyword_index = W.keyword_index
            /\ doc_frequencies = W.doc_frequencies /\ doc_lengths = W.doc_lengths
            /\ avg_doc_length = W.avg_doc_length /\ disk = W.disk
            /\ now = 2 * Len(names)
            /\ last = [op |-> "profile", profile_name |-> "Alice",
                       profile_data |-> profile_data, entry_ids |-> <<>>, purged |-> 0]
            /\ NoWorkflow /\ writer = NoWriter

\* add_profile_to_vectordb(profile_data, profile_name) returns
DeriveSync(coarse) ==
    /\ last.op = "profile"
    /\ coarse => Len(DeriveEntries(last.profile_data)) >= 2
    /\ \E W \in {AddProfileToVectordb(World, last.profile_data, last.profile_name,
                                      now, coarse)} : SetWorld(W)
    /\ now' = ClockAfter(now, Len(DeriveEntries(last.profile_data)), coarse)
    /\ last' = [last EXCEPT !.op = "sync",
                            !.entry_ids = EntryIds(World, last.profile_data, last.profile_name),
                            !.purged = Cardinality(IndicesToRemove(metadata, last.profile_name))]
    /\ UNCHANGED <<workflow, writer>>

NextDerive == \E coarse \in BOOLEAN : DeriveSync(coarse)

SpecDerive == InitDerive /\ [][NextDerive]_vars

(***************************************************************************)
(* The workflow graph (src/resumeagents/graph/resume_graph.py, class       *)
(* ResumeAgentsGraph).  A step runs the node the graph is at and follows   *)
(* the edge, or the conditional edge, that leaves it.  Every agent and     *)
(* evaluator call returns; what an evaluator answers, and whether an agent *)
(* stores a result, is the caller's to choose.  analysis_results holds,    *)
(* for every team, whether a result of one of its agents is stored         *)
(* (team_results), whether "<team>_revision_feedback" is stored (the code  *)
(* stores it with needs_revision True only) and "<team>_revision_count"    *)
(* (None: the key is absent).                                              *)
(***************************************************************************)
Teams == {"analysis_team", "matching_team", "strategy_team", "guide_team", "production_team"}

\* the largest max_revision_rounds a caller configures
MaxRoundsConfigured == 3

\* the nodes that run one agent, and the team of each (_get_team_agents)
TeamOfAgentNode ==
    [company_analysis |-> "analysis_team", market_analysis |-> "analysis_team",
     jd_analysis |-> "analysis_team",
     candidate_analysis |-> "matching_team", culture_analysis |-> "matching_team",
     trend_analysis |-> "matching_team",
     strength_research |-> "strategy_team", weakness_research |-> "strategy_team",
     question_guide |-> "guide_team", experience_guide |-> "guide_team",
     writing_guide |-> "guide_team",
     resume_writing |-> "production_team", cover_letter_writing |-> "production_team",
     quality_management |-> "production_team"]

\* graph.add_edge(a, b) for an agent node a
Edge ==
    [company_analysis |-> "market_analysis", market_analysis |-> "jd_analysis",
     jd_analysis |-> "analysis_evaluation",
     candidate_analysis |-> "culture_analysis", culture_analysis |-> "trend_analysis",
     trend_analysis |-> "matching_evaluation",
     strength_research |-> "weakness_research", weakness_research |-> "strategy_evaluation",
     question_guide |-> "experience_guide", experience_guide |-> "writing_guide",
     writing_guide |-> "guide_evaluation",
     resume_writing |-> "cover_letter_writing", cover_letter_writing |-> "quality_management",
     quality_management |-> "production_evaluation"]

\* the evaluation and revision nodes of a team, and the "continue" target of
\* its conditional edge
EvaluationNode ==
    [analysis_team |-> "analysis_evaluation", matching_team |-> "matching_evaluation",
     strategy_team |-> "strategy_evaluation", guide_team |-> "guide_evaluation",
     production_team |-> "production_evaluation"]

RevisionNode ==
    [analysis_team |-> "analysis_revision", matching_team |-> "matching_revision",
     strategy_team |-> "strategy_revision", guide_team |-> "guide_revision",
     production_team |-> "production_revision"]

ContinueNode ==
    [analysis_team |-> "candidate_analysis", matching_team |-> "strength_research",
     strategy_team |-> "question_guide", guide_team |-> "workflow_decision",
     production_team |-> "END"]

\* mutant: the revision count is not compared with max_revision_rounds
ShouldReviseUncounted(team_name, results) ==
    IF team_name \in results.revision_feedback THEN "revise" ELSE "continue"

\* should_revise of _should_revise_stage(team_name)
ShouldRevise(team_name, results) ==
    LET needs_revision == team_name \in results.revision_feedback
        current_count  == IF results.revision_count[team_name] = None THEN 0
                          ELSE results.revision_count[team_name]
        max_revisions  == config.max_revision_rounds
    IN  IF needs_revision /\ current_count < max_revisions THEN "revise" ELSE "continue"

\* team_evaluation of _create_stage_evaluation_node: analysis_results afterwards
TeamEvaluation(team_name, results, needs_revision) ==
    IF team_name \notin results.team_results THEN results
    ELSE IF needs_revision
    THEN [results EXCEPT !.revision_feedback = @ \cup {team_name},
                         !.revision_count[team_name] = IF @ = None THEN 0 ELSE @]
    ELSE results

\* team_revision of _create_stage_revision_node: analysis_results afterwards
TeamRevision(team_name, results, stored) ==
    [results EXCEPT !.revision_count[team_name] = (IF @ = None THEN 0 ELSE @) + 1,
                    !.team_results = IF stored THEN @ \cup {team_name} ELSE @]

\* what the history of a run records: the node that ran last, its team, whether
\* the evaluator was called and what it answered, and how often the revision
\* node of every team has run
NoRun ==
    [op |-> "start", team_name |-> "", evaluated |-> FALSE, needs_revision |-> FALSE,
     runs |-> [t \in Teams |-> 0]]

\* graph.ainvoke(initial_state) on a graph built with some config
InitGraph ==
    /\ index = <<>> /\ data_entries = <<>> /\ metadata = <<>>
    /\ keyword_index = <<>> /\ doc_frequencies = <<>> /\ doc_lengths = <<>>
    /\ avg_doc_length = 0
    /\ disk = EmptyDisk
    /\ now = 0
    /\ writer = NoWriter
    /\ node = "company_analysis"
    /\ analysis_results = [team_results |-> {}, revision_feedback |-> {},
                           revision_count |-> [t \in Teams |-> None]]
    /\ \E max_revision_rounds \in 0..MaxRoundsConfigured,
          workflow_type \in {"guide_only", "both"},
          document_type \in {"resume", "cover_letter"} :
           config = [max_revision_rounds |-> max_revision_rounds,
                     workflow_type |-> workflow_type, document_type |-> document_type]
    /\ last = NoRun

\* an agent node runs: the agent returns, with or without a stored result
AgentNode(stored) ==
    /\ node \in DOMAIN TeamOfAgentNode
    /\ analysis_results' =
           [analysis_results EXCEPT !.team_results =
               IF stored THEN @ \cup {TeamOfAgentNode[node]} ELSE @]
    /\ node' = Edge[node]
    /\ last' = [last EXCEPT !.op = "agent", !.team_name = TeamOfAgentNode[node],
                            !.evaluated = FALSE, !.needs_revision = FALSE]
    /\ UNCHANGED <<engine, config>>

\* an evaluation node runs, then its conditional edge
StageEvaluation(team_name, needs_revision) ==
    /\ node = EvaluationNode[team_name]
    /\ team_name \notin analysis_results.team_results => ~needs_revision
    /\ \E results \in {TeamEvaluation(team_name, analysis_results, needs_revision)} :
          /\ analysis_results' = results
          /\ node' = IF ShouldRevise(team_name, results) = "revise"
                     THEN RevisionNode[team_name] ELSE ContinueNode[team_name]
    /\ last' = [last EXCEPT !.op = "evaluation", !.team_name = team_name,
                            !.evaluated = team_name \in analysis_results.team_results,
                            !.needs_revision = needs_revision]
    /\ UNCHANGED <<engine, config>>

\* a revision node runs, then the edge back to the evaluation node
StageRevision(team_name, stored) ==
    /\ node = RevisionNode[team_name]
    /\ analysis_results' = TeamRevision(team_name, analysis_results, stored)
    /\ node' = EvaluationNode[team_name]
    /\ last' = [last EXCEPT !.op = "revision", !.team_name = team_name,
                            !.evaluated = FALSE, !.needs_revision = FALSE,
                            !.runs[team_name] = @ + 1]
    /\ UNCHANGED <<engine, config>>

\* the pass-through node workflow_decision and _decide_workflow
WorkflowDecision ==
    /\ node = "workflow_decision"
    /\ node' = IF config.workflow_type = "guide_only" THEN "END" ELSE "production_start"
    /\ last' = [last EXCEPT !.op = "decision", !.team_name = "",
                            !.evaluated = FALSE, !.needs_revision = FALSE]
    /\ UNCHANGED <<engine, analysis_results, config>>

\* the pass-through node production_start and _decide_production_entry
ProductionStart ==
    /\ node = "production_start"
    /\ node' = IF config.document_type = "cover_letter" THEN "cover_letter_writing"
               ELSE "resume_writing"
    /\ last' = [last EXCEPT !.op = "decision", !.team_name = "",
                            !.evaluated = FALSE, !.needs_revision = FALSE]
    /\ UNCHANGED <<engine, analysis_results, config>>

NextGraph ==
    \/ \E stored \in BOOLEAN : AgentNode(stored)
    \/ \E team_name \in Teams, needs_revision \in BOOLEAN :
           StageEvaluation(team_name, needs_revision)
    \/ \E team_name \in Teams, stored \in BOOLEAN : StageRevision(team_name, stored)
    \/ WorkflowDecision
    \/ ProductionStart

\* every node that is called returns, so the run goes on until END
SpecGraph == InitGraph /\ [][NextGraph]_vars /\ WF_vars(NextGraph)

(***************************************************************************)
(* One thread runs add_profile_to_vectordb while another thread searches:  *)
(* the engine has no lock, so a search may run between two statements of   *)
(* the call.  The call is cut where it has changed one of index,           *)
(* data_entries and metadata and not yet the others: after the deletions   *)
(* of _remove_profile_entries, after _rebuild_faiss_index has replaced the *)
(* index by an empty one, after it has filled it, and in _add_entry after  *)
(* index.add.  The encoder does not fail.                                  *)
(***************************************************************************)
\* add_profile_to_vectordb(Profiles[p], profile_name) is called and runs
\* _remove_profile_entries up to the call of _rebuild_faiss_index
SyncBegin(profile_name, p, coarse) ==
    /\ writer.pc = "idle"
    /\ ClockAfter(now, Len(DeriveEntries(Profiles[p])), coarse) <= MaxClock
    /\ coarse => Len(DeriveEntries(Profiles[p])) >= 2
    /\ SetWorld(PurgeProfile(World, profile_name))
    /\ writer' = [pc |-> IF IndicesToRemove(metadata, profile_name) = {}
                          THEN "adding" ELSE "purged",
                  profile_name |-> profile_name, profile |-> p, coarse |-> coarse, k |-> 1]
    /\ UNCHANGED <<now, last, workflow>>

\* _rebuild_faiss_index: self.index = faiss.IndexFlatIP(self.dimension)
SyncResetIndex ==
    /\ writer.pc = "purged"
    /\ index' = <<>>
    /\ writer' = [writer EXCEPT !.pc = IF data_entries = <<>> THEN "adding" ELSE "reset"]
    /\ UNCHANGED <<data_entries, metadata, keyword_index, doc_frequencies, doc_lengths,
                   avg_doc_length, disk, now, last, workflow>>

\* _rebuild_faiss_index: encode, normalize and self.index.add(embeddings)
SyncRebuild ==
    /\ writer.pc = "reset"
    /\ SetWorld(RebuildFaissIndex(World))
    /\ writer' = [writer EXCEPT !.pc = "adding"]
    /\ UNCHANGED <<now, last, workflow>>

\* _add_entry of the k-th derived entry, up to self.index.add(embedding)
SyncIndexAdd ==
    /\ writer.pc = "adding"
    /\ writer.k <= Len(DeriveEntries(Profiles[writer.profile]))
    /\ index' = Append(index,
                       Encode(DeriveEntries(Profiles[writer.profile])[writer.k].text))
    /\ writer' = [writer EXCEPT !.pc = "indexed"]
    /\ UNCHANGED <<data_entries, metadata, keyword_index, doc_frequencies, doc_lengths,
                   avg_doc_length, disk, now, last, workflow>>

\* the rest of _add_entry of the k-th derived entry
SyncAppend ==
    /\ writer.pc = "indexed"
    /\ SetWorld(AddEntry([World EXCEPT !.index = SubSeq(index, 1, Len(index) - 1)],
                         DeriveEntries(Profiles[writer.profile])[writer.k], writer.profile_name,
                         TimestampOf(now, writer.k, writer.coarse)))
    /\ writer' = [writer EXCEPT !.pc = "adding", !.k = @ + 1]
    /\ UNCHANGED <<now, last, workflow>>

\* save_db, and add_profile_to_vectordb returns
SyncSave ==
    /\ writer.pc = "adding"
    /\ writer.k > Len(DeriveEntries(Profiles[writer.profile]))
    /\ SetWorld(SaveDb(World))
    /\ now' = ClockAfter(now, Len(DeriveEntries(Profiles[writer.profile])), writer.coarse)
    /\ writer' = NoWriter
    /\ last' = [NoOp EXCEPT !.op = "sync", !.profile_name = writer.profile_name,
                            !.profile = writer.profile]
    /\ UNCHANGED workflow

\* the calls of the writing thread, statement by statement, and the searches of
\* the reading thread (any mode, no filter)
NextThreads ==
    \/ \E in \in PayloadSyncInputs, coarse \in BOOLEAN : SyncBegin(in[1], in[2], coarse)
    \/ SyncResetIndex
    \/ SyncRebuild
    \/ SyncIndexAdd
    \/ SyncAppend
    \/ SyncSave
    \/ \E req \in Requests :
           /\ req.profile_name = "" /\ req.data_types = {} /\ req.limits[1] = 3
           /\ Search(req)

SpecThreads == Init /\ [][NextThreads]_vars

(***************************************************************************)
(* The process may die in save_db, after faiss.write_index has written the *)
(* index blob and before the metadata JSON is opened for writing.  A dead  *)
(* process makes no further call; the next step is a new process that      *)
(* constructs the engine on the same db_path.                              *)
(***************************************************************************)
\* add_profile_to_vectordb(Profiles[p], profile_name) runs up to save_db, which
\* writes the index blob; then the process dies.  The in-memory variables keep
\* what the dead process held.
SyncCrashes(profile_name, p, coarse) ==
    LET entries == DeriveEntries(Profiles[p]) IN
    /\ last.op # "crash"
    /\ ClockAfter(now, Len(entries), coarse) <= MaxClock
    /\ coarse => Len(entries) >= 2
    /\ \E W \in {AddEntries(RemoveProfileEntries(World, profile_name), entries,
                            Len(entries), profile_name, now, coarse)} :
           SetWorld([W EXCEPT !.disk.index_file =
                                  [NoFile EXCEPT !.state = "ok", !.blob = W.index]])
    /\ now' = ClockAfter(now, Len(entries), coarse)
    /\ last' = [NoOp EXCEPT !.op = "crash", !.profile_name = profile_name, !.profile = p]
    /\ UNCHANGED <<workflow, writer>>

NextCrash ==
    \/ \E in \in SyncInputs, coarse \in BOOLEAN :
           last.op # "crash" /\ Sync(in[1], in[2], coarse)
    \/ \E in \in SyncInputs, coarse \in BOOLEAN : SyncCrashes(in[1], in[2], coarse)
    \/ Restart

SpecCrash == Init /\ [][NextCrash]_vars

(***************************************************************************)
(* Claims                                                                  *)
(***************************************************************************)
\* the last operation was an add_profile_to_vectordb that returned
Synced == last.op = "sync" /\ ~last.raised

\* the engine after the step
WorldAfter == World'

\* C1: after successful add_profile_to_vectordb calls the keyword tables have
\* one row per vector-index entry, at the same position: the three lengths are
\* equal, and row i holds the term counts and the token count of data_entries[i].
C1_KeywordRowsAligned ==
    Synced =>
        /\ Len(doc_frequencies) = Len(index)
        /\ Len(doc_lengths) = Len(index)
        /\ \A i \in DOMAIN data_entries :
              /\ i \in DOMAIN doc_frequencies /\ i \in DOMAIN doc_lengths
              /\ doc_frequencies[i] = Counter(Tokenize(data_entries[i]))
              /\ doc_lengths[i] = Len(Tokenize(data_entries[i]))

\* the payload get_entry_with_data returns for an id is the payload the entry
\* stored at that position was derived from (its text is the payload's text)
PayloadOfEntry(W, entry_id) ==
    LET e == GetEntryWithData(W, entry_id) IN e.text = ToText(e.type, e.data)

\* C2: after add_profile_to_vectordb calls over several profiles, for every
\* id i < len(metadata) get_entry_with_data(i) returns the payload supplied for
\* the entry now stored at position i, with that entry's metadata and text.
C2_EntryPayloadMatches ==
    Synced => \A i \in DOMAIN metadata : PayloadOfEntry(World, i - 1)

\* the entries of the other profiles, in storage order
OtherEntries(W, profile_name) ==
    LET keep == {i \in DOMAIN W.metadata : W.metadata[i].profile_name # profile_name}
        F[i \in 0..Len(W.metadata)] ==
            IF i = 0 THEN <<>>
            ELSE IF i \in keep
                 THEN Append(F[i - 1], [metadata |-> W.metadata[i], text |-> W.data_entries[i]])
                 ELSE F[i - 1]
    IN  F[Len(W.metadata)]

\* every stored entry has its own vector, at its position
IndexAligned(W) ==
    /\ Len(W.index) = Len(W.metadata)
    /\ Len(W.data_entries) = Len(W.metadata)
    /\ \A i \in DOMAIN W.data_entries : W.index[i] = Encode(W.data_entries[i])

\* C3: if the encoder raises during add_profile_to_vectordb(P), every entry of
\* every other profile is still in data_entries and metadata, and in the vector
\* index at the same position: index.ntotal equals len(metadata).
C3_FailedSyncKeepsOthers ==
    [][(last'.op = "sync" /\ last'.raised /\ IndexAligned(World))
        => /\ \A j \in DOMAIN OtherEntries(World, last'.profile_name) :
                 \E i \in DOMAIN metadata' :
                     /\ metadata'[i] = OtherEntries(World, last'.profile_name)[j].metadata
                     /\ i \in DOMAIN data_entries'
                     /\ data_entries'[i] = OtherEntries(World, last'.profile_name)[j].text
                     /\ i \in DOMAIN index'
                     /\ index'[i] = Encode(data_entries'[i])
           /\ Len(index') = Len(metadata')]_vars

\* C4: calling add_profile_to_vectordb(P, name) twice in succession leaves the
\* same number of entries for name, the same per-category counts, the same
\* total_entries and index_size as calling it once, and no entry of the first
\* call survives the second.
C4_SyncTwiceAsOnce ==
    [][(Synced /\ last'.op = "sync" /\ ~last'.raised /\ last'.repeat)
        => /\ ProfileTypeCounts(WorldAfter, last.profile_name)
                = ProfileTypeCounts(World, last.profile_name)
           /\ GetDbStats(WorldAfter).total_entries = GetDbStats(World).total_entries
           /\ GetDbStats(WorldAfter).index_size = GetDbStats(World).index_size
           /\ GetDbStats(WorldAfter).profile_counts = GetDbStats(World).profile_counts
           /\ \A i \in DOMAIN metadata' :
                 metadata'[i].profile_name = last.profile_name
                     => metadata'[i].timestamp >= now
           /\ \A i \in DOMAIN metadata :
                 metadata[i].profile_name = last.profile_name
                     => metadata[i].timestamp < now]_vars

\* a profile was synced twice in succession and has entries
C4_Witness ==
    /\ Synced /\ last.repeat /\ last.purged > 0
    /\ \E i \in DOMAIN metadata : metadata[i].profile_name # last.profile_name

\* C5: re-syncing profile A leaves the stored entries of every other profile
\* unchanged (count, text, type, timestamp, relative order), and A's entry
\* count afterwards is the number of entries derived from the new profile.
C5_ResyncFrame ==
    [][(last'.op = "sync" /\ ~last'.raised)
        => /\ OtherEntries(WorldAfter, last'.profile_name)
                = OtherEntries(World, last'.profile_name)
           /\ Cardinality(IndicesToRemove(metadata', last'.profile_name))
                = Len(DeriveEntries(Profiles[last'.profile]))]_vars

\* a profile with two entries was re-synced while another profile has entries
C5_Witness ==
    /\ Synced /\ last.purged >= 2
    /\ \E i \in DOMAIN metadata : metadata[i].profile_name # last.profile_name
    /\ \E i \in DOMAIN metadata : metadata[i].profile_name = last.profile_name

\* search_unified_profile on an engine W
SearchOn(W, req) ==
    SearchUnifiedProfile(W, req.query, req.profile_name, req.data_types,
                         req.limits[1], req.limits[2], req.search_mode)

\* the step is a re-sync of a profile with one entry more than it had
ResyncWithOneMore ==
    /\ last'.op = "sync" /\ ~last'.raised
    /\ last'.purged > 0
    /\ Len(last'.entry_ids) = last'.purged + 1

\* an entry of another profile that a search returns before and after the step
\* has the same score
OthersScoreUnchanged(req) ==
    LET before == SearchOn(World, req)
        after  == SearchOn(WorldAfter, req)
    IN  (~before.raised /\ ~after.raised) =>
            \A i \in DOMAIN before.results, j \in DOMAIN after.results :
                (/\ before.results[i].metadata = after.results[j].metadata
                 /\ before.results[i].metadata.profile_name # last'.profile_name)
                    => before.results[i].score = after.results[j].score

\* C6 as stated: re-syncing profile A with an additional entry leaves the score
\* of every entry of another profile unchanged for a fixed query, in semantic,
\* keyword and hybrid mode.
C6_ScoresUnchangedAllModes ==
    [][ResyncWithOneMore => \A req \in Requests : OthersScoreUnchanged(req)]_vars

\* C6 amended: re-syncing profile A with an additional entry leaves the
\* semantic-mode score of every entry of another profile unchanged for a fixed
\* query (keyword and hybrid scores follow the corpus statistics).
C6_SemanticScoresUnchanged ==
    [][ResyncWithOneMore =>
          \A req \in Requests :
              req.search_mode = "semantic" => OthersScoreUnchanged(req)]_vars

\* a profile was re-synced with one entry more, and a semantic search returns
\* an entry of another profile
C6_Witness ==
    /\ Synced /\ last.purged > 0 /\ Len(last.entry_ids) = last.purged + 1
    /\ \E req \in Requests :
          /\ req.search_mode = "semantic"
          /\ \E r \in Range(SearchOn(World, req).results) :
                r.metadata.profile_name # last.profile_name

\* C7: after save_db a fresh engine constructed on the same path returns, for
\* every query, filter and mode, the same ranked entries with the same scores
\* as the engine that saved (every add_profile_to_vectordb ends with save_db).
C7_RoundTrip ==
    Synced => \A req \in Requests :
        /\ SearchOn(Construct(disk), req).raised = SearchOn(World, req).raised
        /\ SearchOn(Construct(disk), req).results = SearchOn(World, req).results

\* C8: if a persisted file is missing, or reading the index blob or parsing
\* the metadata JSON fails, the constructed engine starts with an empty corpus:
\* index.ntotal = 0 and data_entries and metadata are empty.
C8_LoadFailureStartsEmpty ==
    (/\ last.op = "construct"
     /\ disk.index_file.state # "ok" \/ disk.metadata_file.state # "ok")
        => index = <<>> /\ data_entries = <<>> /\ metadata = <<>>

\* C9: every result of search_unified_profile, in every mode, has a score
\* greater than or equal to the min_score the caller passed.
C9_ScoreAtLeastMinScore ==
    \A req \in Requests :
        \A r \in Range(SearchOn(World, req).results) : r.score >= req.limits[2]

\* C10: every result of search_unified_profile, in every mode, has a type among
\* the data_types supplied and the profile_name supplied (a filter that is
\* None or empty is no filter).
C10_ResultsMatchFilters ==
    \A req \in Requests :
        \A r \in Range(SearchOn(World, req).results) :
            /\ req.data_types # {} => r.metadata.type \in req.data_types
            /\ req.profile_name # "" => r.metadata.profile_name = req.profile_name

\* a search with both filters returns a result while the corpus holds an entry
\* of another profile and an entry of another type
C10_Witness ==
    \E req \in Requests :
        /\ req.data_types # {} /\ req.profile_name # ""
        /\ SearchOn(World, req).results # <<>>
        /\ \E i \in DOMAIN metadata : metadata[i].profile_name # req.profile_name
        /\ \E i \in DOMAIN metadata : metadata[i].type \notin req.data_types

\* C11: every result list returned by search_unified_profile, in semantic,
\* keyword and hybrid mode, is sorted by non-increasing score.
C11_ResultsSortedByScore ==
    \A req \in Requests :
        LET results == SearchOn(World, req).results IN
        \A i \in 1..(Len(results) - 1) : results[i].score >= results[i + 1].score

\* a search returns two results with different scores, the better one stored
\* after the other
C11_Witness ==
    \E req \in Requests :
        LET results == SearchOn(World, req).results IN
        /\ Len(results) >= 2
        /\ results[1].score > results[2].score
        /\ \E i, j \in DOMAIN metadata :
              /\ i > j
              /\ metadata[i] = results[1].metadata
              /\ metadata[j] = results[2].metadata

\* the score a result list gives the entry of result r, 0 when it is not in the list
ComponentOf(results, r) ==
    IF \E i \in DOMAIN results : results[i].metadata = r.metadata /\ results[i].text = r.text
    THEN LET i == CHOOSE i \in DOMAIN results :
                      results[i].metadata = r.metadata /\ results[i].text = r.text
         IN  results[i].score
    ELSE 0

\* the single-mode search for the query and filters of req, with the limits
\* _hybrid_search hands that path (twice top_k, the lowered min_score)
SingleModeOf(req, mode, factor) ==
    SearchOn(World, [req EXCEPT !.search_mode = mode,
                                !.limits = <<req.limits[1] * 2,
                                             (req.limits[2] * factor) \div 10>>])

\* C12: for every result of a hybrid-mode search, score = 0.7 * semantic
\* component + 0.3 * keyword component, where each component is the score the
\* same entry receives from an independent semantic-only or keyword-only search
\* for the same query and filters, and 0 when that search does not return it.
C12_HybridLinear ==
    \A req \in Requests :
        (req.search_mode = "hybrid" /\ ~SearchOn(World, req).raised) =>
            \A r \in Range(SearchOn(World, req).results) :
                r.score * 10 =
                    7 * ComponentOf(SingleModeOf(req, "semantic", 7).results, r)
                    + 3 * ComponentOf(SingleModeOf(req, "keyword", 5).results, r)

\* document i holds token t twice, document j once, and they are otherwise
\* the same text: equal token count, and j has another word, not of the query,
\* where i has its second t
TwiceVersusOnce(i, j, t, query_tokens) ==
    LET ti == Tokenize(data_entries[i])
        tj == Tokenize(data_entries[j])
    IN  /\ Len(ti) = Len(tj)
        /\ CountOf(Counter(ti), t) = 2 /\ CountOf(Counter(tj), t) = 1
        /\ \E p \in DOMAIN ti :
              /\ ti[p] = t /\ tj[p] # t /\ tj[p] \notin Range(query_tokens)
              /\ \A q \in DOMAIN ti \ {p} : ti[q] = tj[q]

\* C13: within one corpus, for two documents of equal length that differ only
\* in holding a query token twice versus once, the BM25 score of the document
\* with two occurrences is at least that of the other, for every corpus size
\* and document frequency of the token.
C13_Bm25MonotoneInTf ==
    (last.op = "bm25" /\ ~last.raised) =>
        \A i, j \in DOMAIN data_entries :
            \A t \in Range(last.query_tokens) :
                TwiceVersusOnce(i, j, t, last.query_tokens)
                    => last.scores[i] >= last.scores[j]

\* C14: on an engine whose corpus has zero entries, search_unified_profile
\* returns an empty list for every query, filter and mode, without raising and
\* without calling the encoder; also after a re-sync that purged the only
\* entries of the corpus and added none.
C14_EmptyCorpusSearch ==
    data_entries = <<>> =>
        \A req \in Requests :
            /\ SearchOn(World, req).results = <<>>
            /\ ~SearchOn(World, req).raised
            /\ ~SearchOn(World, req).encoded

\* a re-sync purged the only entries of the corpus and added none
C14_Witness ==
    /\ Synced /\ last.purged > 0 /\ last.entry_ids = <<>>
    /\ data_entries = <<>> /\ doc_lengths # <<>>

\* the request with another search_mode
WithMode(req, mode) == [req EXCEPT !.search_mode = mode]

WhenAddBegan(profile_name, p, k, coarse) ==
    AddEntries(RemoveProfileEntries(World, profile_name),
               DeriveEntries(Profiles[p]), k - 1, profile_name, now, coarse)

\* C16: if the encoder raises while an entry is being added, the exception
\* reaches the caller of add_profile_to_vectordb and the entry is added
\* nowhere: the vector index, data_entries, metadata, the keyword tables and
\* the entry store are exactly as they were before that entry's add began.
C16_FailedAddAddsNothing ==
    [][(last'.op = "sync" /\ last'.step >= 1)
        => /\ last'.raised
           /\ \E coarse \in BOOLEAN :
                 LET before == WhenAddBegan(last'.profile_name, last'.profile,
                                            last'.step, coarse)
                 IN  /\ index' = before.index
                     /\ data_entries' = before.data_entries
                     /\ metadata' = before.metadata
                     /\ keyword_index' = before.keyword_index
                     /\ doc_frequencies' = before.doc_frequencies
                     /\ doc_lengths' = before.doc_lengths
                     /\ avg_doc_length' = before.avg_doc_length
                     /\ disk'.entry_data = before.disk.entry_data]_vars

\* the encoder raised on the second entry of a call, after the first was added
C16_Witness ==
    /\ last.op = "sync" /\ last.raised /\ last.step = 2
    /\ \E i \in DOMAIN metadata : metadata[i].profile_name = last.profile_name
    /\ \E i \in DOMAIN metadata : metadata[i].profile_name # last.profile_name

\* C17: if the payload file of an existing entry id is absent or cannot be
\* parsed, get_entry_with_data does not raise and returns that entry's metadata
\* and text with an empty payload; searches still return the entry with its
\* metadata and score (every search returns what it returned before the file
\* was lost).
C17_MissingPayloadIsEmpty ==
    [][last'.op = "damage_payload"
        => LET entry_id == last'.entry_ids[1]
               m == metadata'[entry_id + 1]
           IN  /\ ~GetEntryRaises(WorldAfter, entry_id)
               /\ GetEntryWithData(WorldAfter, entry_id)
                    = [type |-> m.type, profile_name |-> m.profile_name,
                       timestamp |-> m.timestamp, index |-> m.index,
                       data |-> <<>>, text |-> data_entries'[entry_id + 1]]
               /\ \A req \in Requests :
                     \E before \in {SearchOn(World, req)},
                        after \in {SearchOn(WorldAfter, req)} :
                         /\ after.results = before.results
                         /\ after.raised = before.raised]_vars

\* the payload file of a stored entry is unparsable, and a search returns the entry
C17_Witness ==
    /\ last.op = "damage_payload"
    /\ last.entry_ids[1] \in DOMAIN disk.entry_data
    /\ disk.entry_data[last.entry_ids[1]] = Unparsable
    /\ \E req \in Requests : \E r \in Range(SearchOn(World, req).results) :
          r.metadata = metadata[last.entry_ids[1] + 1]

\* C18: after any sequence of successful add_profile_to_vectordb calls,
\* search_unified_profile in keyword or hybrid mode completes without raising:
\* BM25 scoring addresses no document id outside the score list and divides by
\* no zero average document length.
C18_KeywordSearchNeverRaises ==
    Synced =>
        \A req \in Requests :
            req.search_mode \in {"keyword", "hybrid"} => ~SearchOn(World, req).raised

\* the tokens and the document ids the postings or the texts mention
PostingTokens ==
    DOMAIN keyword_index \cup UNION {Range(Tokenize(data_entries[i])) : i \in DOMAIN data_entries}

PostingDocIds ==
    UNION {Range(keyword_index[t]) : t \in DOMAIN keyword_index}
        \cup {i - 1 : i \in DOMAIN data_entries}

\* C19: when add_profile_to_vectordb finds prior entries of the profile and
\* removes them, the keyword postings are rebuilt over the remaining corpus:
\* afterwards d is in keyword_index[t] if and only if d < len(data_entries) and
\* t is a token of data_entries[d].
C19_PostingsRebuiltAfterPurge ==
    (Synced /\ last.purged > 0) =>
        \A t \in PostingTokens, d \in PostingDocIds :
            (t \in DOMAIN keyword_index /\ d \in Range(keyword_index[t]))
                <=> (d < Len(data_entries) /\ t \in Range(Tokenize(data_entries[d + 1])))

\* the scores of a result list, in order
ScoresOf(results) == [i \in DOMAIN results |-> results[i].score]

\* the search of req with top_k above the corpus size: no candidate list is
\* cut before the filters apply
Exhaustive(req) ==
    SearchOn(World, [req EXCEPT !.limits = <<Len(index) + 1, req.limits[2]>>])

\* C20: for a search restricted to a profile and/or a category list, the
\* result is the top_k highest-scoring entries among all entries that match
\* the filter and meet the score threshold, however many higher-scoring
\* entries of other profiles or categories the corpus holds; if some matching
\* entry meets the threshold, the result is not empty.
C20_FilteredTopK ==
    \A req \in Requests :
        ((req.profile_name # "" \/ req.data_types # {})
            /\ ~SearchOn(World, req).raised /\ ~Exhaustive(req).raised)
        => ScoresOf(SearchOn(World, req).results)
              = Take(ScoresOf(Exhaustive(req).results), req.limits[1])

\* the keyword-mode search of req with min_score 0 and top_k above the corpus size
KeywordAll(req) ==
    SearchOn(World, [req EXCEPT !.search_mode = "keyword",
                                !.limits = <<Len(data_entries) + 1, 0>>])

\* C21: in keyword mode with min_score 0 and top_k at least the corpus size,
\* every entry that passes the filters and whose text contains at least one
\* query token is returned with a positive score, for every corpus size and
\* every document frequency of the token.
C21_KeywordMatchesReturned ==
    Synced =>
        \A req \in Requests :
            ~KeywordAll(req).raised =>
                \A i \in DOMAIN data_entries :
                    (/\ PassesFilters(metadata[i], req.profile_name, req.data_types)
                     /\ Range(Tokenize(data_entries[i]))
                            \cap Range(Tokenize(ExpandQuery(req.query))) # {})
                        => \E r \in Range(KeywordAll(req).results) :
                              /\ r.metadata = metadata[i]
                              /\ r.text = data_entries[i]
                              /\ r.score > 0

\* the results of the two paths of _hybrid_search for req, and combined_results
\* after both loops (before the sort and the truncation)
SemanticPathOf(req) ==
    SemanticSearch(World, ExpandQuery(req.query), req.profile_name, req.data_types,
                   req.limits[1] * 2, (req.limits[2] * 7) \div 10)

KeywordPathOf(req) ==
    KeywordSearch(EnsureKeywordIndex(World), ExpandQuery(req.query), req.profile_name,
                  req.data_types, req.limits[1] * 2, (req.limits[2] * 5) \div 10)

MergedOf(req) ==
    MergeKeyword(MergeSemantic(SemanticPathOf(req), Len(SemanticPathOf(req))),
                 KeywordPathOf(req), Len(KeywordPathOf(req)))

\* two results refer to the same stored entry
SameEntry(r, s) == r.metadata = s.metadata /\ r.text = s.text

\* C22: in hybrid mode, every entry returned by the semantic path or by the
\* keyword path appears as its own result in the merged list before truncation,
\* and no two results of the merged list refer to the same entry; two distinct
\* entries of the same profile and category are never collapsed into one
\* result, even when they were created with equal timestamps.
C22_HybridKeepsEveryEntry ==
    \A req \in Requests :
        (req.search_mode = "hybrid" /\ index # <<>> /\ ~SearchOn(World, req).raised) =>
            \E merged \in {MergedOf(req)} :
                /\ \A r \in Range(SemanticPathOf(req)) \cup Range(KeywordPathOf(req)) :
                      \E i \in DOMAIN merged : SameEntry(merged[i].value, r)
                /\ \A i, j \in DOMAIN merged :
                      SameEntry(merged[i].value, merged[j].value) => i = j

\* sum(counts.values())
RECURSIVE SumOfValues(_)
SumOfValues(counts) ==
    IF DOMAIN counts = {} THEN 0
    ELSE LET k == CHOOSE k \in DOMAIN counts : TRUE
         IN  counts[k] + SumOfValues([x \in DOMAIN counts \ {k} |-> counts[x]])

\* C23: between public operations that completed without an exception
\* (construction from files written by a completed save_db,
\* add_profile_to_vectordb, searches), index.ntotal = len(data_entries) =
\* len(metadata), and get_db_stats reports total_entries = index_size = the sum
\* of type_counts = the sum of profile_counts.
C23_StorageArraysAligned ==
    ~last.raised =>
        /\ Len(index) = Len(data_entries)
        /\ Len(data_entries) = Len(metadata)
        /\ GetDbStats(World).total_entries = GetDbStats(World).index_size
        /\ GetDbStats(World).index_size = SumOfValues(GetDbStats(World).type_counts)
        /\ GetDbStats(World).index_size = SumOfValues(GetDbStats(World).profile_counts)

\* a re-sync replaced a profile's entries by a different number of entries,
\* beside the entries of another profile and entries of two types
C23_Witness ==
    /\ Synced /\ last.purged > 0 /\ Len(last.entry_ids) # last.purged
    /\ Len(last.entry_ids) > 0
    /\ Cardinality(DOMAIN GetDbStats(World).profile_counts) = 2
    /\ Cardinality(DOMAIN GetDbStats(World).type_counts) >= 2

\* the key occurs in the query under case-insensitive substring comparison
OccursIgnoringCase(key, query) ==
    \E i \in DOMAIN query : IsSubstring(Lower(key), Lower(query[i]))

\* C24: for every key of the synonym table and of the related-technology
\* table, whatever letter case the key has in the table, if the key occurs in
\* the query under case-insensitive substring comparison then _expand_query
\* appends that key's leading associated terms (the first 4 synonyms, or the
\* first 3 related technologies) to the expanded query.
C24_KeyMatchIgnoresCase ==
    last.op = "expand" =>
        /\ \A i \in DOMAIN synonyms :
              OccursIgnoringCase(synonyms[i].key, last.query)
                  => Range(Take(synonyms[i].values, 4)) \subseteq Range(last.expanded_query)
        /\ \A i \in DOMAIN tech_relations :
              OccursIgnoringCase(tech_relations[i].key, last.query)
                  => Range(Take(tech_relations[i].values, 3)) \subseteq Range(last.expanded_query)

\* the text shares no token with the tokenized (expanded) query of req
SharesNoToken(text, req) ==
    Range(Tokenize(text)) \cap Range(Tokenize(ExpandQuery(req.query))) = {}

\* C25: in every reachable index state, an entry whose text shares no token
\* with the tokenized query has a BM25 score of exactly 0, never appears in
\* keyword-mode results, and contributes a keyword component of 0 to hybrid
\* results.
C25_NoSharedTokenScoresZero ==
    \A req \in Requests :
        \E Wk \in {EnsureKeywordIndex(World)} :
            /\ ~Bm25Raises(Wk, Tokenize(ExpandQuery(req.query))) =>
                  \A i \in DOMAIN data_entries :
                      SharesNoToken(data_entries[i], req)
                          => Bm25Score(Wk, Tokenize(ExpandQuery(req.query)), i - 1) = 0
            /\ req.search_mode = "keyword" =>
                  \A r \in Range(SearchOn(World, req).results) : ~SharesNoToken(r.text, req)
            /\ (req.search_mode = "hybrid" /\ index # <<>> /\ ~SearchOn(World, req).raised) =>
                  \A r \in Range(MergedOf(req)) :
                      SharesNoToken(r.value.text, req) => r.value.keyword_score = 0

\* the number of stored entries of a profile and a type
EntriesOfType(profile_name, type) ==
    Cardinality({i \in DOMAIN metadata : /\ metadata[i].profile_name = profile_name
                                         /\ metadata[i].type = type})

\* one stored entry per item of the list categories
OnePerItem(profile_name, profile_data) ==
    /\ EntriesOfType(profile_name, "education") = Len(profile_data.education)
    /\ EntriesOfType(profile_name, "work_experience") = Len(profile_data.work_experience)
    /\ EntriesOfType(profile_name, "project") = Len(profile_data.projects)
    /\ EntriesOfType(profile_name, "certification") = Len(profile_data.certifications)
    /\ EntriesOfType(profile_name, "award") = Len(profile_data.awards)

\* the returned ids: one per stored entry of the profile, distinct, each the
\* position of an entry of the profile
IdsArePositions(profile_name, entry_ids) ==
    /\ Len(entry_ids) = Cardinality(IndicesToRemove(metadata, profile_name))
    /\ \A j, k \in DOMAIN entry_ids : entry_ids[j] = entry_ids[k] => j = k
    /\ \A j \in DOMAIN entry_ids :
          /\ entry_ids[j] >= 0 /\ entry_ids[j] < Len(metadata)
          /\ metadata[entry_ids[j] + 1].profile_name = profile_name

\* the number of entries of a singleton category: one if it is not empty
OneIfPresent(data) == IF data = <<>> THEN 0 ELSE 1

\* C26 as stated: for any profile, add_profile_to_vectordb derives exactly one
\* entry for personal_info, one per item of education, work_experience,
\* projects, certifications and awards, and one each for skills, career_goals
\* and interests; it returns exactly one id per derived entry, the ids are
\* distinct, and each id is the position of that entry in the storage arrays.
C26_OneEntryPerCategory ==
    last.op = "sync" =>
        /\ EntriesOfType(last.profile_name, "personal_info") = 1
        /\ EntriesOfType(last.profile_name, "skills") = 1
        /\ EntriesOfType(last.profile_name, "career_goals") = 1
        /\ EntriesOfType(last.profile_name, "interests") = 1
        /\ OnePerItem(last.profile_name, last.profile_data)
        /\ IdsArePositions(last.profile_name, last.entry_ids)

\* C26 amended: add_profile_to_vectordb derives one entry for each of
\* personal_info, skills, career_goals and interests that is present and not
\* empty (none for a missing or empty one), and one per item of education,
\* work_experience, projects, certifications and awards; it returns exactly one
\* id per derived entry, the ids are distinct, and each id is the position of
\* that entry in the storage arrays: the entry there has the synced profile
\* name and the type and text of the derived entry.
C26_OneEntryPerPresentCategory ==
    last.op = "sync" =>
        /\ EntriesOfType(last.profile_name, "personal_info")
              = OneIfPresent(last.profile_data.personal_info)
        /\ EntriesOfType(last.profile_name, "skills") = OneIfPresent(last.profile_data.skills)
        /\ EntriesOfType(last.profile_name, "career_goals")
              = OneIfPresent(last.profile_data.career_goals)
        /\ EntriesOfType(last.profile_name, "interests")
              = OneIfPresent(last.profile_data.interests)
        /\ OnePerItem(last.profile_name, last.profile_data)
        /\ IdsArePositions(last.profile_name, last.entry_ids)
        /\ \A j \in DOMAIN last.entry_ids :
              /\ j \in DOMAIN DeriveEntries(last.profile_data)
              /\ metadata[last.entry_ids[j] + 1].type = DeriveEntries(last.profile_data)[j].type
              /\ data_entries[last.entry_ids[j] + 1] = DeriveEntries(last.profile_data)[j].text

\* a profile with every singleton category and two items in a list category
\* was synced over its own older entries, beside another profile's entries
C26_Witness ==
    /\ last.op = "sync" /\ last.purged > 0
    /\ \E i \in DOMAIN metadata : metadata[i].profile_name # last.profile_name
    /\ last.profile_data.personal_info # <<>> /\ last.profile_data.skills # <<>>
    /\ last.profile_data.career_goals # <<>> /\ last.profile_data.interests # <<>>
    /\ Len(last.profile_data.projects) = 2
    /\ last.profile_data.awards = <<>>

\* C27: in the workflow graph, when a stage's evaluation reports that no
\* revision is needed, the workflow proceeds to the next stage without running
\* that stage's revision node again, including when the passing evaluation
\* follows an earlier failed evaluation of the same stage.
C27_PassProceeds ==
    [][\A team_name \in Teams :
          (/\ last'.op = "evaluation" /\ last'.team_name = team_name
           /\ last'.evaluated /\ ~last'.needs_revision)
              => node' = ContinueNode[team_name]]_vars

C29_NoOverlapNoMismatch ==
    [][(last'.op = "search" /\ writer.pc = "idle") => IndexAligned(World)]_vars

\* a search ran after the deletions of a purge and before the index was
\* replaced: the index is longer than metadata, one of its positions holds the
\* vector of another entry than the one stored there, and one has no entry
C29_Witness ==
    /\ last.op = "search" /\ writer.pc = "purged"
    /\ Len(index) # Len(metadata)
    /\ \E i \in DOMAIN index :
          i \in DOMAIN data_entries /\ index[i] # Encode(data_entries[i])
    /\ \E i \in DOMAIN index : i \notin DOMAIN metadata

====
